---- MODULE Spec2Model ----
(***************************************************************************)
(* A model of the dcrd peer-to-peer server (server.go): the peer event     *)
(* loop that owns the peer registry, the per-peer wire callbacks           *)
(* (OnVersion, OnGetData, OnTx, OnBlock) and the ban score policy.         *)
(***************************************************************************)
EXTENDS Integers, Sequences, FiniteSets, TLC

(***************************************************************************)
(* Bounds of the model and configuration values.                            *)
(***************************************************************************)
\* Number of connections (peer ids) the model lets the codec create.
NumPeers == 2
\* Largest cfg.MaxPeers the server is configured with.
CfgMaxPeers == 2
\* cfg.MaxSameIP: connections allowed from one IP.
CfgMaxSameIP == 1
\* cfg.BanDuration, in clock ticks.
CfgBanDuration == 1
\* Last value of the clock.
MaxTime == 1
\* Number of times Stop may be called.
MaxStopCalls == 2
MaxStartCalls == 2

\* wire.InitialProcotolVersion, the minimum protocol version.
InitialProcotolVersion == 1
\* wire.SFNodeNetwork, the full-node service bit.
SFNodeNetwork == 1
\* wire.SFNodeCF, the committed-filter service bit.
SFNodeCF == 4

PeerIds == 1..NumPeers
\* Remote hosts.  They are in different network groups and the second is in a
\* whitelisted network (cfg.whitelists).
Hosts == {"10.0.0.1", "10.1.0.1"}
Whitelists == {"10.1.0.1"}
Groups == {"10.0.0.0", "10.1.0.0"}

\* addrmgr.GroupKey: the /16 of a routable IPv4 address.
GroupKey(host) == IF host = "10.1.0.1" THEN "10.1.0.0" ELSE "10.0.0.0"

\* isWhitelisted: the host is in one of cfg.whitelists.
isWhitelisted(host) == host \in Whitelists

(***************************************************************************)
(* Service flags are bit masks.                                             *)
(***************************************************************************)
RECURSIVE BitAnd(_, _)
BitAnd(a, b) ==
    IF a = 0 \/ b = 0 THEN 0
    ELSE (IF a % 2 = 1 /\ b % 2 = 1 THEN 1 ELSE 0) + 2 * BitAnd(a \div 2, b \div 2)

RECURSIVE BitAndNot(_, _)
\* a & ^b
BitAndNot(a, b) ==
    IF a = 0 THEN 0
    ELSE (IF a % 2 = 1 /\ b % 2 = 0 THEN 1 ELSE 0) + 2 * BitAndNot(a \div 2, b \div 2)

\* hasServices: all desired flags are advertised.
hasServices(advertised, desired) == BitAnd(advertised, desired) = desired

HexDigit(d) ==
    <<"0", "1", "2", "3", "4", "5", "6", "7", "8", "9", "a", "b", "c", "d", "e", "f">>[d + 1]

RECURSIVE HexDigits(_)
HexDigits(n) == IF n < 16 THEN HexDigit(n) ELSE HexDigits(n \div 16) \o HexDigit(n % 16)

\* fmt.Sprintf("%#x", n)
FormatHex(n) == IF n = 0 THEN "0" ELSE "0x" \o HexDigits(n)

VARIABLES
    peer,            \* the serverPeer objects, by peer id
    inboundPeers,    \* peerState.inboundPeers (its keys)
    outboundPeers,   \* peerState.outboundPeers
    persistentPeers, \* peerState.persistentPeers
    banned,          \* peerState.banned: host -> end of ban
    outboundGroups,  \* peerState.outboundGroups: group key -> count
    suggestions,     \* peerState.suggestions of the IPv4 family: host -> tally
    localAddresses,  \* address manager: hosts added as local addresses
    newPeers,        \* server.newPeers channel
    donePeers,       \* server.donePeers channel
    banPeers,        \* server.banPeers channel
    started,         \* server.started
    shutdown,        \* server.shutdown
    quit,            \* server.quit is closed
    loopPc,          \* position of the peerHandler goroutine
    now,             \* the clock read by time.Now()
    bmPeers,         \* block manager: peers announced by NewPeer and not yet done
    cfgMaxPeers,     \* cfg.MaxPeers: capacity of the registry and of the channels
    cfgDisableBanning, \* cfg.DisableBanning
    banScore,        \* serverPeer.banScore: persistent and decaying parts
    invList,         \* OnGetData: msg.InvList, the kinds of the requested items
    invLength,       \* OnGetData: length, that is len(msg.InvList)
    gdPc,            \* OnGetData: position of the callback
    gdI,             \* OnGetData: items of invList handled so far
    numAdded,        \* OnGetData: numAdded
    notFound,        \* OnGetData: notFound.InvList
    waitChan,        \* OnGetData: waitChan
    chans,           \* OnGetData: signals buffered in doneChan and in each fresh c
    sendQueue,       \* codec: messages queued for the peer and not yet sent
    sent,            \* codec: messages sent to the peer, in order
    continueHash,    \* serverPeer.continueHash: a block hash, or NoHash for nil
    cfgBlocksOnly,   \* cfg.BlocksOnly
    inbox,           \* per peer: wire messages not yet read by its input handler
    cbPc,            \* per peer: position of the OnTx / OnBlock callback
    msgChan,         \* block manager: queued transactions and blocks
    txProcessed,     \* serverPeer.txProcessed: buffered signals
    blockProcessed,  \* serverPeer.blockProcessed: buffered signals
    knownInventory,  \* codec, per peer: inventory the peer is known to have
    relayInv,        \* server.relayInv: channel of relayMsg
    relayed,         \* relay messages the event loop has handled
    wantsHeaders,    \* codec, per peer: the peer asked for headers announcements
    outQueue,        \* codec, per peer: announcements queued for the peer
    pendingInvs,     \* rebroadcastHandler: pendingInvs, inventory vector -> data
    modifyRebroadcastInv, \* server.modifyRebroadcastInv: the message a sender waits to hand over
    rbPc,            \* rebroadcastHandler: position of the goroutine
    fireDone,        \* rebroadcastHandler: entries the range loop of the timer case has visited
    rebroadcasts,    \* relay messages sent since the timer last fired
    fires,           \* number of times the timer has fired
    timerInterval,   \* seconds the timer is set to, Expired once it has fired
    riv,             \* rebroadcastHandler: the message last received from modifyRebroadcastInv
    chain,           \* the chain: best height, next stake difficulty, live tickets
    wg,              \* server.wg: tasks added and not yet done
    quitCloses,      \* number of times server.quit has been closed
    effects,         \* the reply and the manager calls of the handler that ran last, where observed
    facadeCalls,     \* facade calls: position of each caller, its query and the replies it received
    cfgSimNet,       \* cfg.SimNet
    cfgDisableRPC,   \* cfg.DisableRPC
    cfgNoCFilters,   \* cfg.NoCFilters
    queued,          \* codec, per peer: replies the request callbacks queued with QueueMessage
    invQueue,        \* block manager: inventory messages queued with QueueInv
    rbCaller         \* position of a caller of the rebroadcast inventory functions

registryVars == <<inboundPeers, outboundPeers, persistentPeers, banned, outboundGroups,
                  suggestions, localAddresses>>
chanVars == <<newPeers, donePeers, banPeers>>
lifeVars == <<started, shutdown, quit, loopPc>>
collabVars == <<bmPeers>>
loopVars == <<peer, registryVars, chanVars, lifeVars, now, collabVars>>

cfgVars == <<cfgMaxPeers, cfgDisableBanning, cfgSimNet, cfgDisableRPC, cfgNoCFilters>>
requestVars == <<queued, invQueue, rbCaller>>
fanoutVars == <<relayInv, relayed, wantsHeaders, outQueue>>
rebroadcastVars == <<pendingInvs, modifyRebroadcastInv, rbPc, fireDone, rebroadcasts, fires,
                     timerInterval, riv, chain>>
taskVars == <<wg, quitCloses>>
observerVars == <<effects, facadeCalls>>
serviceVars == <<fanoutVars, rebroadcastVars, taskVars, observerVars>>
banVars == <<cfgVars, requestVars, serviceVars, banScore>>
getDataVars == <<invList, invLength, gdPc, gdI, numAdded, notFound, waitChan, chans, sendQueue,
                 sent, continueHash>>
relayVars == <<cfgBlocksOnly, inbox, cbPc, msgChan, txProcessed, blockProcessed,
               knownInventory>>
callbackVars == <<banVars, getDataVars, relayVars>>
\* The callback variables but the observer's.
unobserved == <<cfgVars, requestVars, fanoutVars, rebroadcastVars, taskVars, banScore, getDataVars, relayVars>>

vars == <<loopVars, callbackVars>>

(***************************************************************************)
(* Peers.  A serverPeer is created when a connection is established and    *)
(* its id is assigned in connection order.                                  *)
(***************************************************************************)
\* cfg.SimNet
CfgSimNet == cfgSimNet

\* Version messages a remote peer may send.
ProtocolVersions == {InitialProcotolVersion - 1, InitialProcotolVersion}
ServiceMasks == {0, SFNodeNetwork + SFNodeCF}
\* External hosts of this node that remote peers report in AddrYou.
AddrYous == {"198.51.100.7"}
\* External hosts reported to a node that discovers its address.
ReportHosts == {"203.0.113.7", "198.51.100.9"}
\* A reported address that is not usable.
Unroutable == "0.0.0.0"
\* Keys of the suggestions map.
SuggestedHosts == AddrYous \cup ReportHosts
\* make(map[string]int32) for the family
NoSuggestions == [h \in SuggestedHosts |-> 0]
\* Values of DisableRelayTx in the version messages of the peer event loop,
\* which does not read the flag.
RelayFlags == {FALSE}
VersionMsgs ==
    [ProtocolVersion : ProtocolVersions, Services : ServiceMasks, AddrYou : AddrYous,
     DisableRelayTx : RelayFlags]

NoPeer(phase) ==
    [phase |-> phase, inbound |-> FALSE, persistent |-> FALSE, host |-> "",
     isWhitelisted |-> FALSE, connected |-> FALSE, doneSent |-> FALSE,
     connReq |-> FALSE, protoVer |-> 0, services |-> 0, reject |-> "",
     amSetServices |-> -1, amGood |-> FALSE, peerNa |-> "",
     disableRelayTx |-> FALSE, verAckReceived |-> FALSE,
     addrsSent |-> FALSE, getMiningStateSent |-> FALSE]

\* newServerPeer, with the peer package's NewInboundPeer / NewOutboundPeer and
\* AssociateConnection.
newServerPeer(inbound, isPersistent, host) ==
    [phase |-> "negotiating", inbound |-> inbound, persistent |-> isPersistent,
     host |-> host, isWhitelisted |-> isWhitelisted(host), connected |-> TRUE,
     doneSent |-> FALSE, connReq |-> ~inbound, protoVer |-> 0, services |-> 0,
     reject |-> "", amSetServices |-> -1, amGood |-> FALSE, peerNa |-> "",
     disableRelayTx |-> FALSE, verAckReceived |-> FALSE,
     addrsSent |-> FALSE, getMiningStateSent |-> FALSE]

\* peer.VersionKnown: set by the codec before OnVersion is invoked.
VersionKnown(sp) == peer[sp].phase = "versioned"

\* Capacity of the buffered server channels (newServer).
ChanCap == cfgMaxPeers

\* peer.Disconnect, as a new value of the peer table.
Disconnect(table, sp) == [table EXCEPT ![sp].connected = FALSE]

RECURSIVE DisconnectAll(_, _)
DisconnectAll(table, sps) ==
    IF sps = {} THEN table
    ELSE LET sp == CHOOSE x \in sps : TRUE
         IN DisconnectAll(Disconnect(table, sp), sps \ {sp})

\* The peer event loop before server.Start.
LoopIdle ==
    /\ peer = [p \in PeerIds |-> NoPeer("new")]
    /\ inboundPeers = {}
    /\ outboundPeers = {}
    /\ persistentPeers = {}
    /\ banned = <<>>
    /\ outboundGroups = [g \in Groups |-> 0]
    /\ suggestions = NoSuggestions
    /\ localAddresses = {}
    /\ newPeers = <<>>
    /\ donePeers = <<>>
    /\ banPeers = <<>>
    /\ started = 0
    /\ shutdown = 0
    /\ quit = FALSE
    /\ loopPc = "idle"
    /\ now = 0
    /\ bmPeers = {}
    /\ cfgMaxPeers \in 1..CfgMaxPeers

\* A nil channel, and the identity of doneChan; the fresh channel made for
\* the i-th requested item is identified by i.
NilChan == -1
DoneChan == 0

\* newServerPeer: the ban score of a new peer is zero.
BanIdle ==
    /\ cfgDisableBanning = FALSE
    /\ banScore = [p \in PeerIds |-> [persistent |-> 0, transient |-> 0]]

\* A nil *chainhash.Hash.
NoHash == "nil"

\* No getdata message is being served.
GetDataIdle ==
    /\ invList = <<>>
    /\ invLength = 0
    /\ gdPc = "idle"
    /\ gdI = 0
    /\ numAdded = 0
    /\ notFound = <<>>
    /\ waitChan = NilChan
    /\ chans = <<>>
    /\ sendQueue = <<>>
    /\ sent = <<>>
    /\ continueHash = NoHash

\* No transaction or block has been received.
RelayIdle ==
    /\ cfgBlocksOnly = FALSE
    /\ inbox = [p \in PeerIds |-> <<>>]
    /\ cbPc = [p \in PeerIds |-> "read"]
    /\ msgChan = <<>>
    /\ txProcessed = [p \in PeerIds |-> 0]
    /\ blockProcessed = [p \in PeerIds |-> 0]
    /\ knownInventory = [p \in PeerIds |-> {}]

\* Nothing has been relayed.
FanoutIdle ==
    /\ relayInv = <<>>
    /\ relayed = 0
    /\ wantsHeaders = [p \in PeerIds |-> FALSE]
    /\ outQueue = [p \in PeerIds |-> <<>>]

\* time.NewTimer(5 * time.Minute), in seconds.
InitialDelay == 300

\* The timer has fired and is not yet reset.
Expired == -1

\* The chain as the rebroadcast handler sees it on a prune: BestSnapshot,
\* CalcNextRequiredStakeDifficulty (value and error) and the live tickets.
GenesisChain == [height |-> 1, nextStakeDiff |-> 1, err |-> FALSE, live |-> {}]

\* Data that is not a *dcrutil.Tx.
NotTx == [isTx |-> FALSE, txType |-> "", value |-> 0, expiry |-> 0, ticket |-> ""]

\* No message has been received from modifyRebroadcastInv.
NoMsg == [kind |-> "", invVect |-> "", data |-> NotTx]

\* rebroadcastHandler before its first select.
RebroadcastIdle ==
    /\ pendingInvs = <<>>
    /\ modifyRebroadcastInv = <<>>
    /\ rbPc = IF started = 0 \/ cfgDisableRPC THEN "idle" ELSE "select"
    /\ fireDone = {}
    /\ rebroadcasts = <<>>
    /\ fires = 0
    /\ timerInterval = InitialDelay
    /\ riv = NoMsg
    /\ chain = GenesisChain

\* server.Start: the tasks added to the wait group, which are the peer handler
\* and, the RPC server being enabled, the rebroadcast handler.
Tasks == IF cfgDisableRPC THEN 1 ELSE 2

\* The tasks of a started server are running and quit is open.
TasksIdle ==
    /\ wg = IF started = 0 THEN 0 ELSE Tasks
    /\ quitCloses = 0

\* No target of a query.
NoTarget == [by |-> "", id |-> 0, addr |-> ""]

\* No handler has been observed.
NoEffects ==
    [handler |-> "", seq |-> 0, target |-> NoTarget, sp |-> 0, list |-> "",
     found |-> FALSE, reply |-> "", cmConnect |-> "", cmRemove |-> 0,
     cmDisconnect |-> 0, amConnected |-> 0]

\* A facade caller that has made no call.
NoCall == [pc |-> "idle", kind |-> "", target |-> NoTarget, replies |-> <<>>]

\* Goroutines that call the facade methods of the server.
Callers == 1..2

ObserverIdle == effects = NoEffects /\ facadeCalls = [c \in Callers |-> NoCall]

\* The default configuration, and nothing requested by a peer or a caller.
RequestIdle ==
    /\ cfgSimNet = FALSE
    /\ cfgDisableRPC = FALSE
    /\ cfgNoCFilters = FALSE
    /\ queued = [p \in PeerIds |-> <<>>]
    /\ invQueue = <<>>
    /\ rbCaller = "idle"

ServiceIdle == RequestIdle /\ FanoutIdle /\ RebroadcastIdle /\ TasksIdle /\ ObserverIdle

Init ==
    /\ LoopIdle
    /\ BanIdle
    /\ GetDataIdle
    /\ RelayIdle
    /\ ServiceIdle

spawnsAlways(calls) == TRUE

\* server.Start: atomic.AddInt32(&s.started, 1) != 1 returns.
spawns(calls) == calls = 1

\* server.Start: spawns the peer handler and the rebroadcast handler on the
\* first call only.
Start ==
    /\ started < MaxStartCalls
    /\ started' = started + 1
    /\ IF spawns(started + 1)
       THEN /\ loopPc' = "run"
            /\ rbPc' = IF cfgDisableRPC THEN rbPc ELSE "select"
            /\ wg' = wg + Tasks
       ELSE UNCHANGED <<loopPc, rbPc, wg>>
    /\ UNCHANGED <<peer, registryVars, chanVars, shutdown, quit, now, collabVars>>
    /\ UNCHANGED <<pendingInvs, modifyRebroadcastInv, fireDone, rebroadcasts, fires,
                   timerInterval, riv, chain>>
    /\ UNCHANGED <<cfgVars, requestVars, fanoutVars, quitCloses, observerVars, banScore, getDataVars, relayVars>>

\* server.Stop: atomic.AddInt32(&s.shutdown, 1) != 1 returns nil.
closesQuit(calls) == calls = 1

\* server.Stop: closes quit on the first call only.
Stop ==
    /\ shutdown < MaxStopCalls
    /\ shutdown' = shutdown + 1
    /\ IF closesQuit(shutdown + 1)
       THEN /\ quit' = TRUE
            /\ quitCloses' = quitCloses + 1
       ELSE UNCHANGED <<quit, quitCloses>>
    /\ UNCHANGED <<peer, registryVars, chanVars, started, loopPc, now, collabVars>>
    /\ UNCHANGED <<cfgVars, requestVars, fanoutVars, rebroadcastVars, wg, observerVars, banScore,
                   getDataVars, relayVars>>

\* Time passes.  The clock is only ever compared with the end of a ban, so it
\* is advanced only while a ban entry exists.
Tick ==
    /\ now < MaxTime
    /\ banned # <<>>
    /\ now' = now + 1
    /\ UNCHANGED <<callbackVars, peer, registryVars, chanVars, lifeVars, collabVars>>

\* inboundPeerConnected / outboundPeerConnected: the connection manager hands
\* over an established connection.
PeerConnected(sp, inbound, isPersistent, host) ==
    /\ loopPc = "run"
    /\ peer[sp].phase = "new"
    /\ \A q \in PeerIds : q < sp => peer[q].phase # "new"
    /\ inbound => ~isPersistent
    /\ peer' = [peer EXCEPT ![sp] = newServerPeer(inbound, isPersistent, host)]
    /\ UNCHANGED <<callbackVars, registryVars, chanVars, lifeVars, now, collabVars>>

versionTooOldOffByOne(msg) == msg.ProtocolVersion < InitialProcotolVersion - 1

\* The version is below the minimum protocol version.
versionTooOld(msg) == msg.ProtocolVersion < InitialProcotolVersion

rejectsServicesAnyDirection(isInbound, msg) == ~hasServices(msg.Services, SFNodeNetwork)

\* An outbound peer that is not a full node is rejected.
rejectsServices(isInbound, msg) == ~isInbound /\ ~hasServices(msg.Services, SFNodeNetwork)

\* The reason of the reject message.
rejectReason(msg) ==
    "required services " \o FormatHex(BitAndNot(SFNodeNetwork, msg.Services))
        \o " not offered"

setsServicesNever(isInbound) == FALSE

\* The advertised services are recorded in the address manager for outbound
\* connections off the simulation network.
setsServices(isInbound) == ~CfgSimNet /\ ~isInbound

\* serverPeer.OnVersion.  The codec has recorded the advertised version and
\* services (VersionKnown) before the callback runs, and disconnects the peer
\* after it when the version is too old or a reject is returned.  The calls
\* made on the address manager for the peer's address (SetServices, Good) are
\* recorded with the peer.
OnVersion(sp, msg) ==
    LET isInbound == peer[sp].inbound
        known == [peer EXCEPT ![sp].phase = "versioned",
                              ![sp].protoVer = msg.ProtocolVersion,
                              ![sp].services = msg.Services,
                              ![sp].amSetServices =
                                  IF setsServices(isInbound) THEN msg.Services ELSE @]
    IN /\ peer[sp].phase = "negotiating"
       /\ peer[sp].connected
       /\ IF versionTooOld(msg)
          THEN /\ peer' = Disconnect(known, sp)
               /\ UNCHANGED <<bmPeers, newPeers>>
          ELSE IF rejectsServices(isInbound, msg)
          THEN /\ peer' = Disconnect([known EXCEPT ![sp].reject = rejectReason(msg)], sp)
               /\ UNCHANGED <<bmPeers, newPeers>>
          ELSE /\ Len(newPeers) < ChanCap
               /\ bmPeers' = bmPeers \cup {sp}
               /\ newPeers' = Append(newPeers, sp)
               /\ peer' = [known EXCEPT ![sp].amGood = ~CfgSimNet /\ ~isInbound,
                                        ![sp].peerNa = IF isInbound THEN @ ELSE msg.AddrYou,
                                        ![sp].disableRelayTx = msg.DisableRelayTx]
       /\ UNCHANGED <<callbackVars, registryVars, donePeers, banPeers, lifeVars, now>>

\* The connection is closed by the remote side or by a network error.
RemoteDisconnect(sp) ==
    /\ peer[sp].phase \in {"negotiating", "versioned"}
    /\ peer[sp].connected
    /\ peer' = Disconnect(peer, sp)
    /\ UNCHANGED <<callbackVars, registryVars, chanVars, lifeVars, now, collabVars>>

\* server.peerDoneHandler: after WaitForDisconnect, posts the peer on
\* donePeers and tells the block manager if it ever knew the peer.
peerDoneHandler(sp) ==
    /\ peer[sp].phase \in {"negotiating", "versioned"}
    /\ ~peer[sp].connected
    /\ ~peer[sp].doneSent
    /\ Len(donePeers) < ChanCap
    /\ donePeers' = Append(donePeers, sp)
    /\ peer' = [peer EXCEPT ![sp].doneSent = TRUE]
    /\ bmPeers' = IF VersionKnown(sp) THEN bmPeers \ {sp} ELSE bmPeers
    /\ UNCHANGED <<callbackVars, registryVars, newPeers, banPeers, lifeVars, now>>

\* serverPeer.addBanScore past the ban threshold: server.BanPeer followed by
\* Disconnect.  Only a peer that completed the version exchange processes the
\* messages that raise the score.
BanPeer(sp) ==
    /\ VersionKnown(sp)
    /\ peer[sp].connected
    /\ ~peer[sp].isWhitelisted
    /\ Len(banPeers) < ChanCap
    /\ banPeers' = Append(banPeers, sp)
    /\ peer' = Disconnect(peer, sp)
    /\ UNCHANGED <<callbackVars, registryVars, newPeers, donePeers, lifeVars, now, collabVars>>

(***************************************************************************)
(* peerState and the handlers of the peer event loop.                       *)
(***************************************************************************)
\* peerState.Count
Count ==
    Cardinality(inboundPeers) + Cardinality(outboundPeers) + Cardinality(persistentPeers)

\* peerState.ConnectionsWithIP
ConnectionsWithIP(ip) ==
    Cardinality({q \in inboundPeers : peer[q].host = ip})
    + Cardinality({q \in outboundPeers : peer[q].host = ip})
    + Cardinality({q \in persistentPeers : peer[q].host = ip})

\* peerState.forAllPeers: the peers it visits
AllPeers == inboundPeers \cup outboundPeers \cup persistentPeers

banActiveNotAfter(host) == host \in DOMAIN banned /\ now <= banned[host]

\* handleAddPeerMsg: the host has a ban entry that has not expired
\* (time.Now().Before(banEnd)).
banActive(host) == host \in DOMAIN banned /\ now < banned[host]

\* delete(state.banned, host)
bannedWithout(host) == [h \in DOMAIN banned \ {host} |-> banned[h]]

maxSameIPReachedNoPlusOne(sp) ==
    /\ CfgMaxSameIP > 0
    /\ ~(peer[sp].isWhitelisted /\ peer[sp].inbound)
    /\ ConnectionsWithIP(peer[sp].host) > CfgMaxSameIP

\* handleAddPeerMsg: the limit of connections from a single IP is reached.
\* No host of the model is a loopback address.
maxSameIPReached(sp) ==
    /\ CfgMaxSameIP > 0
    /\ ~(peer[sp].isWhitelisted /\ peer[sp].inbound)
    /\ ConnectionsWithIP(peer[sp].host) + 1 > CfgMaxSameIP

maxPeersReachedLate(sp) ==
    /\ Count > cfgMaxPeers
    /\ ~(peer[sp].isWhitelisted /\ peer[sp].inbound)

\* handleAddPeerMsg: the limit of total peers is reached.
maxPeersReached(sp) ==
    /\ Count + 1 > cfgMaxPeers
    /\ ~(peer[sp].isWhitelisted /\ peer[sp].inbound)

\* handleAddPeerMsg: the registry map the new peer is put in.
addsInbound(sp) == peer[sp].inbound

addsPersistent(sp) == ~peer[sp].inbound /\ peer[sp].persistent

addsOutboundNoElse(sp) == ~peer[sp].inbound

addsOutbound(sp) == ~peer[sp].inbound /\ ~peer[sp].persistent

\* handleDonePeerMsg: the registry map the peer is looked up in.
doneList(sp) ==
    IF peer[sp].persistent THEN "persistent"
    ELSE IF peer[sp].inbound THEN "inbound" ELSE "outbound"

ListOf(name) ==
    IF name = "inbound" THEN inboundPeers
    ELSE IF name = "persistent" THEN persistentPeers ELSE outboundPeers

\* state.outboundGroups[addrmgr.GroupKey(sp.NA())] += d
groupsAdd(groups, sp, d) ==
    [groups EXCEPT ![GroupKey(peer[sp].host)] = @ + d]

\* The part of the state the handlers of the event loop work on.
Current ==
    [peer |-> peer, inboundPeers |-> inboundPeers, outboundPeers |-> outboundPeers,
     persistentPeers |-> persistentPeers, banned |-> banned,
     outboundGroups |-> outboundGroups, suggestions |-> suggestions,
     localAddresses |-> localAddresses]

\* cfg: automatic discovery of the external address is not disabled (no
\* proxy, no --nodiscoverip, no external ip, listening, no upnp, not simnet).
CfgDiscoverIP == ~cfgSimNet

\* addrManager.IsPeerNaValid: the reported address is usable.
IsPeerNaValid(na) == na \in SuggestedHosts

\* handleAddPeerMsg: the admitted peer is outbound and its report of this
\* node's address is counted.
countsSuggestion(sp) ==
    /\ ~peer[sp].inbound
    /\ CfgDiscoverIP
    /\ peer[sp].peerNa # ""
    /\ IsPeerNaValid(peer[sp].peerNa)

\* state.suggestions[addrmgr.IPv4Address][id]++
suggestionsWith(sp) == [suggestions EXCEPT ![peer[sp].peerNa] = @ + 1]

bestSuggestionsAny(tallies) == {h \in DOMAIN tallies : tallies[h] > 0}

\* peerState.ResolveLocalAddress: the suggestions the iteration over the map
\* may end with as the best one (any of those with the highest tally).
bestSuggestions(tallies) ==
    {h \in DOMAIN tallies :
        tallies[h] > 0 /\ \A g \in DOMAIN tallies : tallies[g] <= tallies[h]}

ResolveLocalAddressAtOne(tallies, best) ==
    IF bestSuggestions(tallies) = {} THEN localAddresses
    ELSE IF tallies[best] < 1 THEN localAddresses
    ELSE localAddresses \cup {best}

\* peerState.ResolveLocalAddress: the local addresses it leaves, best being
\* the best suggestion found.
ResolveLocalAddress(tallies, best) ==
    IF bestSuggestions(tallies) = {} THEN localAddresses
    ELSE IF tallies[best] < 2 THEN localAddresses
    ELSE localAddresses \cup {best}

maxReachedSameIPOnly(sp) == maxSameIPReached(sp)

\* handleAddPeerMsg: the peer is turned away by the limit checks.
maxReached(sp) == maxSameIPReached(sp) \/ maxPeersReached(sp)

\* handleAddPeerMsg, for the peer sp received from newPeers: the state it
\* leaves, best being the suggestion ResolveLocalAddress ends with.  Every
\* address of the model is a well-formed host:port, so SplitHostPort does not
\* fail.
handleAddPeerMsg(sp, best) ==
    LET host == peer[sp].host
        rejected == [Current EXCEPT !.peer = Disconnect(peer, sp)]
        unbanned == [Current EXCEPT !.banned = bannedWithout(host)]
    IN IF shutdown # 0 THEN rejected
       ELSE IF banActive(host) THEN rejected
       ELSE IF maxReached(sp)
       THEN [unbanned EXCEPT !.peer = Disconnect(peer, sp)]
       ELSE [unbanned EXCEPT
               !.inboundPeers = IF addsInbound(sp) THEN @ \cup {sp} ELSE @,
               !.persistentPeers = IF addsPersistent(sp) THEN @ \cup {sp} ELSE @,
               !.outboundPeers = IF addsOutbound(sp) THEN @ \cup {sp} ELSE @,
               !.outboundGroups = IF peer[sp].inbound THEN @ ELSE groupsAdd(@, sp, 1),
               !.suggestions = IF countsSuggestion(sp) THEN suggestionsWith(sp) ELSE @,
               !.localAddresses =
                   IF countsSuggestion(sp)
                   THEN ResolveLocalAddress(suggestionsWith(sp), best) ELSE @]

doneDecrementsUnchecked(sp) == ~peer[sp].inbound /\ VersionKnown(sp)

\* handleDonePeerMsg: the peer is found in its list and its group count is
\* decremented.
doneDecrements(sp) ==
    sp \in ListOf(doneList(sp)) /\ ~peer[sp].inbound /\ VersionKnown(sp)

\* handleDonePeerMsg, for the peer sp received from donePeers.
handleDonePeerMsg(sp) ==
    [Current EXCEPT
       !.outboundGroups = IF doneDecrements(sp) THEN groupsAdd(@, sp, -1) ELSE @,
       !.inboundPeers = IF doneList(sp) = "inbound" THEN @ \ {sp} ELSE @,
       !.persistentPeers = IF doneList(sp) = "persistent" THEN @ \ {sp} ELSE @,
       !.outboundPeers = IF doneList(sp) = "outbound" THEN @ \ {sp} ELSE @]

banEndNow == now
\* time.Now().Add(cfg.BanDuration)
banEnd == now + CfgBanDuration

\* handleBanPeerMsg, for the peer sp received from banPeers.
handleBanPeerMsg(sp) ==
    LET host == peer[sp].host IN
    [Current EXCEPT
       !.banned = [h \in DOMAIN banned \cup {host} |->
                     IF h = host THEN banEnd ELSE banned[h]]]

\* The peers a query's compare function selects: by id (sp.ID() == id) or by
\* address (sp.Addr() == addr).
Targets == [by : {"id"}, id : PeerIds, addr : {""}] \cup [by : {"addr"}, id : {0}, addr : Hosts]
cmp(target, sp) ==
    IF target.by = "id" THEN sp = target.id ELSE peer[sp].host = target.addr

RECURSIVE groupsRemoveAll(_, _)
groupsRemoveAll(groups, sps) ==
    IF sps = {} THEN groups
    ELSE LET sp == CHOOSE x \in sps : TRUE
         IN groupsRemoveAll(groupsAdd(groups, sp, -1), sps \ {sp})

inboundMatchesNone(target) == {}

\* disconnectPeer on the inbound list: the peers the map iteration may find.
inboundMatches(target) == {q \in inboundPeers : cmp(target, q)}

\* handleQuery, case disconnectNodeMsg: the matching inbound peer the map
\* iteration found (found), or else every matching outbound peer, is removed
\* from its map and disconnected.
handleDisconnectNodeMsg(target, found) ==
    LET outMatch == {q \in outboundPeers : cmp(target, q)}
    IN IF found \in inboundPeers
       THEN [Current EXCEPT !.inboundPeers = @ \ {found},
                            !.peer = Disconnect(@, found)]
       ELSE [Current EXCEPT !.outboundPeers = @ \ outMatch,
                            !.outboundGroups = groupsRemoveAll(@, outMatch),
                            !.peer = DisconnectAll(@, outMatch)]

\* disconnectPeer on the persistent list: the peers the map iteration may find.
persistentMatches(target) == {q \in persistentPeers : cmp(target, q)}

handleRemoveNodeMsgKeepsReq(target, found) ==
    IF found \in persistentPeers
    THEN [Current EXCEPT
            !.outboundGroups = groupsAdd(@, found, -1),
            !.persistentPeers = @ \ {found},
            !.peer = Disconnect(@, found)]
    ELSE Current

\* handleQuery, case removeNodeMsg: the matching persistent peer the map
\* iteration found is removed, its connection request is cleared and it is
\* disconnected.
handleRemoveNodeMsg(target, found) ==
    IF found \in persistentPeers
    THEN [Current EXCEPT
            !.outboundGroups = groupsAdd(@, found, -1),
            !.persistentPeers = @ \ {found},
            !.peer = Disconnect([@ EXCEPT ![found].connReq = FALSE], found)]
    ELSE Current

\* handleQuery, case connectNodeMsg: the registry is only read.
handleConnectNodeMsg(addr, permanent) == Current

(***************************************************************************)
(* peerHandler: the select loop and its exit.                               *)
(***************************************************************************)
Range(q) == {q[i] : i \in DOMAIN q}

\* A serverPeer whose done message has been handled and that is referenced by
\* no registry map and no channel is garbage: it plays no further part.
Reap(table, registered, pending) ==
    [q \in PeerIds |->
        IF table[q].doneSent /\ q \notin registered /\ q \notin pending
        THEN NoPeer("gone") ELSE table[q]]

\* The state left by a handler, with the channels as the loop leaves them.
Apply(r, news, dones, bans) ==
    /\ inboundPeers' = r.inboundPeers
    /\ outboundPeers' = r.outboundPeers
    /\ persistentPeers' = r.persistentPeers
    /\ banned' = r.banned
    /\ outboundGroups' = r.outboundGroups
    /\ suggestions' = r.suggestions
    /\ localAddresses' = r.localAddresses
    /\ newPeers' = news
    /\ donePeers' = dones
    /\ banPeers' = bans
    /\ peer' = Reap(r.peer, r.inboundPeers \cup r.outboundPeers \cup r.persistentPeers,
                    Range(news) \cup Range(dones) \cup Range(bans))

ReceiveAddPeer ==
    /\ loopPc = "run"
    /\ newPeers # <<>>
    /\ LET sp == Head(newPeers)
           best == IF countsSuggestion(sp)
                   THEN bestSuggestions(suggestionsWith(sp)) ELSE {""}
       IN \E b \in best :
             Apply(handleAddPeerMsg(sp, b), Tail(newPeers), donePeers, banPeers)
    /\ UNCHANGED <<unobserved, lifeVars, now, collabVars>>

HandleAddPeer == ReceiveAddPeer /\ UNCHANGED observerVars

ReceiveDonePeer ==
    /\ loopPc = "run"
    /\ donePeers # <<>>
    /\ Apply(handleDonePeerMsg(Head(donePeers)), newPeers, Tail(donePeers), banPeers)
    /\ UNCHANGED <<unobserved, lifeVars, now, collabVars>>

HandleDonePeer == ReceiveDonePeer /\ UNCHANGED observerVars

HandleBanPeer ==
    /\ loopPc = "run"
    /\ banPeers # <<>>
    /\ Apply(handleBanPeerMsg(Head(banPeers)), newPeers, donePeers, Tail(banPeers))
    /\ UNCHANGED <<callbackVars, lifeVars, now, collabVars>>

\* A peer id that is in no map: disconnectPeer found nothing.
NotFound == 0

ReceiveDisconnectNode(target) ==
    /\ loopPc = "run"
    /\ \E found \in (IF inboundMatches(target) = {} THEN {NotFound}
                     ELSE inboundMatches(target)) :
          Apply(handleDisconnectNodeMsg(target, found), newPeers, donePeers, banPeers)
    /\ UNCHANGED <<unobserved, lifeVars, now, collabVars>>

HandleDisconnectNode(target) == ReceiveDisconnectNode(target) /\ UNCHANGED observerVars

ReceiveRemoveNode(target) ==
    /\ loopPc = "run"
    /\ \E found \in (IF persistentMatches(target) = {} THEN {NotFound}
                     ELSE persistentMatches(target)) :
          Apply(handleRemoveNodeMsg(target, found), newPeers, donePeers, banPeers)
    /\ UNCHANGED <<unobserved, lifeVars, now, collabVars>>

HandleRemoveNode(target) == ReceiveRemoveNode(target) /\ UNCHANGED observerVars

ReceiveConnectNode(addr, permanent) ==
    /\ loopPc = "run"
    /\ Apply(handleConnectNodeMsg(addr, permanent), newPeers, donePeers, banPeers)
    /\ UNCHANGED <<unobserved, lifeVars, now, collabVars>>

HandleConnectNode(addr, permanent) == ReceiveConnectNode(addr, permanent) /\ UNCHANGED observerVars

\* case <-s.quit: every registered peer is disconnected and the loop is left.
HandleQuit ==
    /\ loopPc = "run"
    /\ quit
    /\ peer' = DisconnectAll(peer, AllPeers)
    /\ loopPc' = "cleanup"
    /\ UNCHANGED <<callbackVars, registryVars, chanVars, started, shutdown, quit, now, collabVars>>

\* The cleanup loop receives from newPeers, donePeers and relayInv (banPeers
\* is not one of its cases) until none of them is ready.
CleanupDrain ==
    /\ loopPc = "cleanup"
    /\ \/ /\ newPeers # <<>>
          /\ Apply(Current, Tail(newPeers), donePeers, banPeers)
          /\ UNCHANGED relayInv
       \/ /\ donePeers # <<>>
          /\ Apply(Current, newPeers, Tail(donePeers), banPeers)
          /\ UNCHANGED relayInv
       \/ /\ relayInv # <<>>
          /\ relayInv' = Tail(relayInv)
          /\ UNCHANGED <<peer, registryVars, chanVars>>
    /\ UNCHANGED <<lifeVars, now, collabVars>>
    /\ UNCHANGED <<cfgVars, requestVars, relayed, wantsHeaders, outQueue, rebroadcastVars, taskVars, observerVars,
                   banScore, getDataVars, relayVars>>

\* The cleanup loop finds no channel ready: s.wg.Done()
CleanupExit ==
    /\ loopPc = "cleanup"
    /\ newPeers = <<>>
    /\ donePeers = <<>>
    /\ relayInv = <<>>
    /\ loopPc' = "done"
    /\ wg' = wg - 1
    /\ UNCHANGED <<peer, registryVars, chanVars, started, shutdown, quit, now, collabVars>>
    /\ UNCHANGED <<cfgVars, requestVars, fanoutVars, rebroadcastVars, quitCloses, observerVars, banScore,
                   getDataVars, relayVars>>

Next ==
    \/ started = 0 /\ Start
    \/ shutdown = 0 /\ Stop
    \/ Tick
    \/ \E sp \in PeerIds, inbound \in BOOLEAN, isPersistent \in BOOLEAN, host \in Hosts :
          PeerConnected(sp, inbound, isPersistent, host)
    \/ \E sp \in PeerIds, msg \in VersionMsgs : OnVersion(sp, msg)
    \/ \E sp \in PeerIds : RemoteDisconnect(sp)
    \/ \E sp \in PeerIds : peerDoneHandler(sp)
    \/ \E sp \in PeerIds : BanPeer(sp)
    \/ HandleAddPeer
    \/ HandleDonePeer
    \/ HandleBanPeer
    \/ \E target \in Targets : HandleDisconnectNode(target)
    \/ \E target \in Targets : HandleRemoveNode(target)
    \/ \E addr \in Hosts, permanent \in BOOLEAN : HandleConnectNode(addr, permanent)
    \/ HandleQuit
    \/ CleanupDrain
    \/ CleanupExit

Spec == Init /\ [][Next]_vars

(***************************************************************************)
(* Properties of the peer registry and of admission.                        *)
(***************************************************************************)
\* C1: after any interleaving of add, done, ban and query messages, no peer
\* id is a key of two of the three registry maps, so Count(), the sum of the
\* three map sizes, is the number of registered peer ids.
RegistryDisjoint ==
    /\ inboundPeers \cap outboundPeers = {}
    /\ inboundPeers \cap persistentPeers = {}
    /\ outboundPeers \cap persistentPeers = {}
    /\ Count = Cardinality(AllPeers)

\* Two peers are registered, in different maps.
RegistryDisjointWitness ==
    /\ Count = 2
    /\ Cardinality(inboundPeers) < 2
    /\ Cardinality(outboundPeers) < 2
    /\ Cardinality(persistentPeers) < 2

\* C2: for every network group, outboundGroups holds the number of registered
\* outbound and persistent peers of that group, all of which have completed
\* version negotiation; no counter is decremented twice for a peer or negative.
OutboundGroupsExact ==
    /\ \A g \in Groups :
          outboundGroups[g] =
             Cardinality({q \in outboundPeers \cup persistentPeers :
                             GroupKey(peer[q].host) = g})
    /\ \A q \in outboundPeers \cup persistentPeers : VersionKnown(q)
    /\ \A g \in Groups : outboundGroups[g] >= 0

\* A persistent peer has been removed by a remove-node query (its connection
\* request is cleared), its done message is pending, and another outbound
\* peer is still counted.
OutboundGroupsWitness ==
    \E q \in PeerIds :
       /\ peer[q].persistent
       /\ ~peer[q].connReq
       /\ q \in Range(donePeers)
       /\ \E g \in Groups : outboundGroups[g] = 1

\* The step in which the event loop handles the add-peer message at the head
\* of newPeers.
AddPeerStep == loopPc = "run" /\ newPeers # <<>> /\ newPeers' = Tail(newPeers)

\* The registry maps after the step hold the peer.
Inserted(sp) == sp \in inboundPeers' \cup outboundPeers' \cup persistentPeers'

MapsUnchanged ==
    /\ inboundPeers' = inboundPeers
    /\ outboundPeers' = outboundPeers
    /\ persistentPeers' = persistentPeers

\* The add-peer message of a peer whose host is banned until after the current
\* time: the peer is disconnected and put in no map.
BanActiveRejects ==
    LET sp == Head(newPeers)
        host == peer[sp].host
    IN (host \in DOMAIN banned /\ banned[host] > now)
          => /\ ~Inserted(sp)
             /\ MapsUnchanged
             /\ ~peer'[sp].connected

\* The add-peer message of a peer whose host has an expired ban entry: the
\* entry is deleted and the remaining checks decide on the admission.
BanExpiredContinues ==
    LET sp == Head(newPeers)
        host == peer[sp].host
    IN (host \in DOMAIN banned /\ banned[host] <= now)
          => /\ host \notin DOMAIN banned'
             /\ Inserted(sp) <=> ~(maxSameIPReached(sp) \/ maxPeersReached(sp))

\* C3 as stated: on every add-peer message, an active ban rejects the peer and
\* an expired ban entry is deleted with admission continuing.
BanAdmissionAlways ==
    [][AddPeerStep => (BanActiveRejects /\ BanExpiredContinues)]_vars

\* C3, amended: an active ban always rejects the peer; an expired ban entry is
\* deleted, with admission continuing, when the server is not shutting down.
BanAdmission ==
    [][AddPeerStep =>
         (BanActiveRejects /\ (shutdown = 0 => BanExpiredContinues))]_vars

\* A ban has expired and its entry has been deleted by the admission of a
\* peer of the banned host, which is registered.
BanAdmissionWitness ==
    /\ now >= 1
    /\ banned = <<>>
    /\ \E q \in AllPeers : ~peer[q].isWhitelisted /\ peer[q].connected

\* C4: a peer whose version message advertises a protocol version below the
\* minimum is never passed to AddPeer and is in no registry map, be it inbound
\* or outbound.
OldVersionNeverAdded ==
    \A q \in AllPeers \cup Range(newPeers) :
       peer[q].protoVer >= InitialProcotolVersion

\* An inbound and an outbound peer have both sent a version below the minimum.
OldVersionWitness ==
    \E q, r \in PeerIds :
       /\ peer[q].phase = "versioned" /\ peer[q].inbound
       /\ peer[q].protoVer < InitialProcotolVersion
       /\ peer[r].phase = "versioned" /\ ~peer[r].inbound
       /\ peer[r].protoVer < InitialProcotolVersion

\* The reject OnVersion returns to a peer that lacks the full-node service.
MissingNetworkReason == "required services 0x1 not offered"

Admitted(q) == q \in bmPeers \/ q \in Range(newPeers) \/ q \in AllPeers

\* An outbound peer that advertised no full-node service got the reject and
\* was not admitted.
RejectedForServices(q) ==
    /\ peer[q].reject = MissingNetworkReason
    /\ ~Admitted(q)

\* C5 as stated: every outbound peer whose services lack the full-node bit is
\* answered with the reject naming the missing services and is neither
\* announced to the block manager nor added; no inbound peer is rejected.
ServicesRejectAlways ==
    \A q \in PeerIds :
       peer[q].phase = "versioned" =>
          /\ (~peer[q].inbound /\ ~hasServices(peer[q].services, SFNodeNetwork))
                => RejectedForServices(q)
          /\ peer[q].inbound => peer[q].reject = ""

\* C5, amended: the reject is returned when the outbound peer's protocol
\* version is at least the minimum.
ServicesReject ==
    \A q \in PeerIds :
       peer[q].phase = "versioned" =>
          /\ (/\ ~peer[q].inbound
              /\ peer[q].protoVer >= InitialProcotolVersion
              /\ ~hasServices(peer[q].services, SFNodeNetwork))
                => RejectedForServices(q)
          /\ peer[q].inbound => peer[q].reject = ""

\* An outbound peer without the full-node service has been rejected while an
\* inbound peer with the same services is registered.
ServicesRejectWitness ==
    \E q, r \in PeerIds :
       /\ ~peer[q].inbound /\ peer[q].reject # "" /\ peer[q].services = 0
       /\ r \in inboundPeers /\ peer[r].services = 0

(***************************************************************************)
(* serverPeer.addBanScore and the dynamic ban score.                        *)
(***************************************************************************)
\* cfg.BanThreshold
CfgBanThreshold == 100

\* The increases passed by the callers: OnMemPool, OnGetData for a request
\* far below wire.MaxInvPerMsg, and enforceNodeCFFlag.
BanScoreCalls == {<<0, 33>>, <<0, 0>>, <<100, 0>>}

\* A peer the server accepted: inbound, version exchange completed.
NegotiatedPeer(host) ==
    [newServerPeer(TRUE, FALSE, host) EXCEPT
        !.phase = "versioned",
        !.protoVer = InitialProcotolVersion,
        !.services = SFNodeNetwork + SFNodeCF]

\* Host assignments of inbound peers that the same-IP limit and the limit of
\* total peers admit (whitelisted inbound peers are exempt from both).
HostAssignments ==
    {h \in [PeerIds -> Hosts] :
        /\ \A ip \in Hosts \ Whitelists :
              Cardinality({p \in PeerIds : h[p] = ip}) <= CfgMaxSameIP
        /\ Cardinality({p \in PeerIds : h[p] \notin Whitelists}) <= CfgMaxPeers}

\* The server is running and serves the peers of the table, all registered
\* as inbound peers.
ServingPeers(table) ==
    /\ peer = table
    /\ inboundPeers = PeerIds
    /\ outboundPeers = {}
    /\ persistentPeers = {}
    /\ banned = <<>>
    /\ outboundGroups = [g \in Groups |-> 0]
    /\ suggestions = NoSuggestions
    /\ localAddresses = {}
    /\ newPeers = <<>>
    /\ donePeers = <<>>
    /\ banPeers = <<>>
    /\ started = 1
    /\ shutdown = 0
    /\ quit = FALSE
    /\ loopPc = "run"
    /\ now = 0
    /\ bmPeers = PeerIds
    /\ cfgMaxPeers = CfgMaxPeers

\* The server is running and serves the peers connected from hostOf.
Serving(hostOf) == ServingPeers([p \in PeerIds |-> NegotiatedPeer(hostOf[p])])

\* DynamicBanScore.Increase, and the score it returns (DynamicBanScore.Int).
Increase(bs, persistent, transient) ==
    [persistent |-> bs.persistent + persistent, transient |-> bs.transient + transient]
Score(bs) == bs.persistent + bs.transient

exceedsOrMeets(score) == score >= CfgBanThreshold
\* score > cfg.BanThreshold, reached only past the warn threshold
exceeds(score) ==
    LET warnThreshold == CfgBanThreshold \div 2
    IN score > warnThreshold /\ score > CfgBanThreshold

\* serverPeer.addBanScore, on the ban score, the peer and the ban channel.
addBanScore(sp, persistent, transient) ==
    IF cfgDisableBanning \/ peer[sp].isWhitelisted
    THEN UNCHANGED <<banScore, peer, banPeers>>
    ELSE IF transient = 0 /\ persistent = 0
    THEN UNCHANGED <<banScore, peer, banPeers>>
    ELSE LET increased == Increase(banScore[sp], persistent, transient)
         IN /\ banScore' = [banScore EXCEPT ![sp] = increased]
            /\ IF exceeds(Score(increased))
               THEN /\ Len(banPeers) < ChanCap
                    /\ banPeers' = Append(banPeers, sp)
                    /\ peer' = Disconnect(peer, sp)
               ELSE UNCHANGED <<peer, banPeers>>

\* A callback of a connected peer reports misbehaviour.
Misbehave(sp, persistent, transient) ==
    /\ VersionKnown(sp)
    /\ peer[sp].connected
    /\ addBanScore(sp, persistent, transient)
    /\ UNCHANGED <<registryVars, newPeers, donePeers, lifeVars, now, collabVars>>
    /\ UNCHANGED <<cfgVars, requestVars, serviceVars, getDataVars, relayVars>>

\* A minute passes: the decaying part of the score halves.
Decay(sp) ==
    /\ banScore[sp].transient > 0
    /\ banScore' = [banScore EXCEPT ![sp].transient = @ \div 2]
    /\ UNCHANGED <<loopVars, cfgVars, requestVars, serviceVars, getDataVars, relayVars>>

BanInit ==
    /\ \E hostOf \in HostAssignments : Serving(hostOf)
    /\ cfgDisableBanning \in BOOLEAN
    /\ banScore = [p \in PeerIds |-> [persistent |-> 0, transient |-> 0]]
    /\ GetDataIdle
    /\ RelayIdle
    /\ ServiceIdle

BanNext ==
    \/ \E sp \in PeerIds, call \in BanScoreCalls : Misbehave(sp, call[1], call[2])
    \/ \E sp \in PeerIds : Decay(sp)

BanSpec == BanInit /\ [][BanNext]_vars

\* The step is a call addBanScore(sp, persistent, transient).
BanAndDisconnect(sp) ==
    /\ banPeers' = Append(banPeers, sp)
    /\ peer[sp].connected /\ ~peer'[sp].connected

\* C10: addBanScore(p, t, reason) puts the peer on the ban channel and
\* disconnects it exactly when banning is enabled, the peer is not
\* whitelisted, p and t are not both zero and the increased score is strictly
\* above the ban threshold; with banning disabled or a whitelisted peer the
\* ban score is left as it was.
BanIffOverThreshold ==
    [][\A sp \in PeerIds, call \in BanScoreCalls :
          Misbehave(sp, call[1], call[2]) =>
             /\ BanAndDisconnect(sp) <=>
                   /\ ~cfgDisableBanning
                   /\ ~peer[sp].isWhitelisted
                   /\ ~(call[1] = 0 /\ call[2] = 0)
                   /\ Score(banScore'[sp]) > CfgBanThreshold
             /\ ~BanAndDisconnect(sp) => UNCHANGED <<banPeers, peer>>
             /\ (cfgDisableBanning \/ peer[sp].isWhitelisted) => banScore' = banScore]_vars

\* A peer was banned and disconnected for a score above the threshold.
BanIffOverThresholdWitness ==
    \E sp \in PeerIds :
        /\ sp \in Range(banPeers)
        /\ ~peer[sp].connected
        /\ Score(banScore[sp]) > CfgBanThreshold

(***************************************************************************)
(* serverPeer.OnGetData with server.pushTxMsg and server.pushBlockMsg, and *)
(* the codec that sends what they queue.                                    *)
(***************************************************************************)
\* Longest getdata message served.
MaxGetDataLen == 4

\* wire.MaxInvPerMsg
MaxInvPerMsg == 50000

\* The hashes of the blocks of the best chain after the genesis block, oldest
\* first.
BestChain == <<"block", "blockContinue", "blockTip">>
BlockHashes == {BestChain[k] : k \in DOMAIN BestChain}

\* What a requested inventory vector turns out to be: a transaction that is
\* found or not, one of the two oldest blocks of the best chain by its hash, a
\* block that is not found, or a vector of another inventory type.
ItemKinds == {"tx", "txMissing", "block", "blockMissing", "blockContinue", "unknown"}
GetDataMsgs == UNION {[1..n -> ItemKinds] : n \in 0..MaxGetDataLen}

\* The peer served by OnGetData.
servedPeer == CHOOSE sp \in PeerIds : TRUE

\* The channel c handed to the push of item i (counted from zero).
chanFor(i, length, missing) ==
    IF i = length - 1 /\ missing = <<>> THEN DoneChan
    ELSE IF (i + 1) % 3 = 0 THEN i + 1
    ELSE NilChan

\* peer.QueueMessage
QueueMessage(queue, kind, item, done) ==
    Append(queue, [kind |-> kind, item |-> item, done |-> done])

\* A send on and a receive from a channel; a signal carries the number of the
\* queued message whose completion it reports, or zero when a failed fetch
\* produced it.
Signal(ch, c, token) == IF c = NilChan THEN ch ELSE [ch EXCEPT ![c] = Append(@, token)]
Receive(ch, c) == IF c = NilChan THEN ch ELSE [ch EXCEPT ![c] = Tail(@)]
Ready(ch, c) == IF c = NilChan THEN TRUE ELSE ch[c] # <<>>
HasRoom(ch, c) == IF c = NilChan THEN TRUE ELSE Len(ch[c]) < 1

\* 32-bit unsigned arithmetic on two 16-bit halves <<high, low>>: the product
\* of a and a small factor modulo 2^32, and the quotient of such a value by m.
Half == 65536
Mul32(a, factor) ==
    LET low == (a % Half) * factor
        high == ((a \div Half) % Half) * factor + low \div Half
    IN <<high % Half, low % Half>>
Div32(v, m) ==
    v[1] * (Half \div m) + (v[1] * (Half % m) + v[2]) \div m

\* uint32(length)*99/wire.MaxInvPerMsg
getDataBanScoreTimes100(length) == Div32(Mul32(length, 100), MaxInvPerMsg)
getDataBanScore(length) == Div32(Mul32(length, 99), MaxInvPerMsg)

\* OnGetData up to the loop, for a getdata message msg: empty messages are
\* ignored.
OnGetDataStart(msg) ==
    /\ gdPc = "idle"
    /\ VersionKnown(servedPeer)
    /\ peer[servedPeer].connected
    /\ invList' = msg
    /\ invLength' = Len(msg)
    /\ IF Len(msg) = 0
       THEN /\ gdPc' = "returned"
            /\ UNCHANGED <<banScore, peer, banPeers, chans>>
       ELSE /\ addBanScore(servedPeer, 0, getDataBanScore(Len(msg)))
            /\ chans' = [c \in 0..Len(msg) |-> <<>>]
            /\ gdPc' = "loop"
    /\ UNCHANGED <<gdI, numAdded, notFound, waitChan, sendQueue, sent, continueHash>>
    /\ UNCHANGED <<registryVars, newPeers, donePeers, lifeVars, now, collabVars>>
    /\ UNCHANGED <<cfgVars, requestVars, serviceVars, relayVars>>

GetDataStart == \E msg \in GetDataMsgs : OnGetDataStart(msg)

\* The channel a push receives from before it queues the fetched data.
awaitsNothing(w) == NilChan
awaits(w) == w

\* The receive after a failed fetch of the final entry.
consumesNever(i, length, c) == FALSE
consumes(i, length, c) == i = length - 1 /\ c # NilChan

\* pushTxMsg / pushBlockMsg of a found item: the queue after the push.
pushed(queue, kind, item, c, sendInv) ==
    IF kind = "tx" THEN QueueMessage(queue, "tx", item, c)
    ELSE IF ~sendInv THEN QueueMessage(queue, "block", item, c)
    ELSE QueueMessage(QueueMessage(queue, "block", item, NilChan), "inv", item, c)

\* One iteration of the loop over msg.InvList.
GetDataItem ==
    /\ gdPc = "loop"
    /\ LET i == gdI
           length == Len(invList)
           kind == invList[i + 1]
           c == chanFor(i, length, notFound)
           sendInv == continueHash # NoHash /\ continueHash = kind
       IN /\ IF kind = "unknown"
             THEN UNCHANGED <<numAdded, notFound, waitChan, chans, sendQueue, continueHash>>
             ELSE IF kind \in {"txMissing", "blockMissing"}
             THEN /\ HasRoom(chans, c)
                  /\ chans' = IF consumes(i, length, c)
                              THEN Receive(Signal(chans, c, 0), c)
                              ELSE Signal(chans, c, 0)
                  /\ notFound' = Append(notFound, i + 1)
                  /\ numAdded' = numAdded + 1
                  /\ waitChan' = c
                  /\ UNCHANGED <<sendQueue, continueHash>>
             ELSE /\ Ready(chans, awaits(waitChan))
                  /\ chans' = Receive(chans, awaits(waitChan))
                  /\ sendQueue' = pushed(sendQueue, IF kind = "tx" THEN "tx" ELSE "block",
                                         i + 1, c, sendInv)
                  /\ continueHash' = IF sendInv THEN NoHash ELSE continueHash
                  /\ numAdded' = numAdded + 1
                  /\ waitChan' = c
                  /\ UNCHANGED notFound
          /\ gdI' = i + 1
          /\ gdPc' = IF i + 1 = length THEN "after" ELSE "loop"
    /\ UNCHANGED <<invList, invLength, sent, loopVars, banVars, relayVars>>

notFoundAlways(missing) == TRUE
\* len(notFound.InvList) != 0
hasNotFound(missing) == missing # <<>>

\* After the loop: the notfound message is queued with doneChan.
GetDataNotFound ==
    /\ gdPc = "after"
    /\ sendQueue' = IF hasNotFound(notFound)
                    THEN QueueMessage(sendQueue, "notfound", 0, DoneChan)
                    ELSE sendQueue
    /\ gdPc' = IF numAdded > 0 THEN "wait" ELSE "returned"
    /\ UNCHANGED <<invList, invLength, gdI, numAdded, notFound, waitChan, chans, sent, continueHash>>
    /\ UNCHANGED <<loopVars, banVars, relayVars>>

\* The final receive from doneChan.
GetDataWait ==
    /\ gdPc = "wait"
    /\ Ready(chans, DoneChan)
    /\ chans' = Receive(chans, DoneChan)
    /\ gdPc' = "returned"
    /\ UNCHANGED <<invList, invLength, gdI, numAdded, notFound, waitChan, sendQueue, sent, continueHash>>
    /\ UNCHANGED <<loopVars, banVars, relayVars>>

\* The codec writes the oldest queued message to the peer and then signals
\* the channel queued with it.
CodecSend ==
    /\ sendQueue # <<>>
    /\ LET m == Head(sendQueue)
       IN /\ HasRoom(chans, m.done)
          /\ chans' = Signal(chans, m.done, Len(sent) + 1)
          /\ sent' = Append(sent, [kind |-> m.kind, item |-> m.item])
    /\ sendQueue' = Tail(sendQueue)
    /\ UNCHANGED <<invList, invLength, gdPc, gdI, numAdded, notFound, waitChan, continueHash>>
    /\ UNCHANGED <<loopVars, banVars, relayVars>>

\* OnGetBlocks may have left serverPeer.continueHash set.
GetDataInit ==
    /\ Serving(CHOOSE hostOf \in HostAssignments : TRUE)
    /\ BanIdle
    /\ invList = <<>>
    /\ invLength = 0
    /\ gdPc = "idle"
    /\ gdI = 0
    /\ numAdded = 0
    /\ notFound = <<>>
    /\ waitChan = NilChan
    /\ chans = <<>>
    /\ sendQueue = <<>>
    /\ sent = <<>>
    /\ continueHash \in {NoHash, "blockContinue"}
    /\ RelayIdle
    /\ ServiceIdle

GetDataNext ==
    \/ GetDataStart
    \/ GetDataItem
    \/ GetDataNotFound
    \/ GetDataWait
    \/ CodecSend

GetDataSpec == GetDataInit /\ [][GetDataNext]_vars

\* Payload messages (transactions and blocks) queued to the codec and not yet
\* sent.
InFlight ==
    Cardinality({k \in DOMAIN sendQueue : sendQueue[k].kind \in {"tx", "block"}})

\* Every requested item is a transaction or block that is found.
AllFound ==
    \A k \in DOMAIN invList : invList[k] \in {"tx", "block", "blockContinue"}

Enqueued == Len(sent) + Len(sendQueue)

\* C7: if OnGetData queued at least one message, it does not return before
\* the codec has signalled the completion of the last message it queued, and
\* the signal it reads from doneChan was produced by that last message.
ReturnsAfterLastSent ==
    /\ (gdPc = "returned" /\ Enqueued > 0) => sendQueue = <<>>
    /\ (gdPc = "wait" /\ chans[DoneChan] # <<>>) => Head(chans[DoneChan]) = Enqueued

\* OnGetData returned from a request whose final entry could not be fetched:
\* the signal of the failed fetch was consumed and the notfound message, the
\* last one queued, has been sent.
ReturnsAfterLastSentWitness ==
    /\ gdPc = "returned"
    /\ Len(invList) > 1
    /\ invList[Len(invList)] \in {"txMissing", "blockMissing"}
    /\ \A k \in 1..(Len(invList) - 1) : invList[k] \in {"tx", "block"}
    /\ sent # <<>>
    /\ sent[Len(sent)].kind = "notfound"

\* C8: for every non-empty getdata message, whatever the mix and positions of
\* found, missing and unknown-type items, OnGetData returns once the codec
\* has signalled every message handed to it: while it has not returned,
\* either the callback or the codec can take a step.
GetDataReturns ==
    gdPc \in {"loop", "after", "wait"} =>
        ENABLED (GetDataItem \/ GetDataNotFound \/ GetDataWait \/ CodecSend)

(***************************************************************************)
(* serverPeer.OnTx and serverPeer.OnBlock with the block manager that      *)
(* processes what they queue.                                               *)
(***************************************************************************)
\* Most tx and block messages a peer has sent that are not yet read.
MaxInbox == 2

Inboxes == UNION {[1..n -> {"tx", "block"}] : n \in 0..MaxInbox}

\* peer.AddKnownInventory of the inventory vector of the received item; the
\* model has one transaction and one block, named by their types.
AddKnownInventory(sp, iv) == [knownInventory EXCEPT ![sp] = @ \cup {iv}]

\* Where the callback is after it queued the item.
returnsAtOnce(callback) == "read"
blocksIn(callback) == callback

\* OnTx up to the receive from txProcessed.
OnTx(sp) ==
    /\ cbPc[sp] = "read"
    /\ inbox[sp] # <<>>
    /\ Head(inbox[sp]) = "tx"
    /\ inbox' = [inbox EXCEPT ![sp] = Tail(@)]
    /\ IF cfgBlocksOnly
       THEN UNCHANGED <<msgChan, cbPc, knownInventory>>
       ELSE /\ knownInventory' = AddKnownInventory(sp, "tx")
            /\ msgChan' = Append(msgChan, [kind |-> "tx", peer |-> sp])
            /\ cbPc' = [cbPc EXCEPT ![sp] = blocksIn("OnTx")]
    /\ UNCHANGED <<cfgBlocksOnly, txProcessed, blockProcessed>>
    /\ UNCHANGED <<loopVars, banVars, getDataVars>>

\* <-sp.txProcessed
OnTxReturn(sp) ==
    /\ cbPc[sp] = "OnTx"
    /\ txProcessed[sp] > 0
    /\ txProcessed' = [txProcessed EXCEPT ![sp] = @ - 1]
    /\ cbPc' = [cbPc EXCEPT ![sp] = "read"]
    /\ UNCHANGED <<cfgBlocksOnly, inbox, msgChan, blockProcessed, knownInventory>>
    /\ UNCHANGED <<loopVars, banVars, getDataVars>>

\* OnBlock up to the receive from blockProcessed.
OnBlock(sp) ==
    /\ cbPc[sp] = "read"
    /\ inbox[sp] # <<>>
    /\ Head(inbox[sp]) = "block"
    /\ inbox' = [inbox EXCEPT ![sp] = Tail(@)]
    /\ knownInventory' = AddKnownInventory(sp, "block")
    /\ msgChan' = Append(msgChan, [kind |-> "block", peer |-> sp])
    /\ cbPc' = [cbPc EXCEPT ![sp] = blocksIn("OnBlock")]
    /\ UNCHANGED <<cfgBlocksOnly, txProcessed, blockProcessed>>
    /\ UNCHANGED <<loopVars, banVars, getDataVars>>

\* <-sp.blockProcessed
OnBlockReturn(sp) ==
    /\ cbPc[sp] = "OnBlock"
    /\ blockProcessed[sp] > 0
    /\ blockProcessed' = [blockProcessed EXCEPT ![sp] = @ - 1]
    /\ cbPc' = [cbPc EXCEPT ![sp] = "read"]
    /\ UNCHANGED <<cfgBlocksOnly, inbox, msgChan, txProcessed, knownInventory>>
    /\ UNCHANGED <<loopVars, banVars, getDataVars>>

\* The block manager processes the oldest queued item and signals the peer
\* it came from on the channel of the item's kind (one buffered slot).
BlockManagerProcess ==
    /\ msgChan # <<>>
    /\ LET m == Head(msgChan)
       IN IF m.kind = "tx"
          THEN /\ txProcessed[m.peer] < 1
               /\ txProcessed' = [txProcessed EXCEPT ![m.peer] = @ + 1]
               /\ UNCHANGED blockProcessed
          ELSE /\ blockProcessed[m.peer] < 1
               /\ blockProcessed' = [blockProcessed EXCEPT ![m.peer] = @ + 1]
               /\ UNCHANGED txProcessed
    /\ msgChan' = Tail(msgChan)
    /\ UNCHANGED <<cfgBlocksOnly, inbox, cbPc, knownInventory>>
    /\ UNCHANGED <<loopVars, banVars, getDataVars>>

RelayInit ==
    /\ Serving(CHOOSE hostOf \in HostAssignments : TRUE)
    /\ BanIdle
    /\ GetDataIdle
    /\ cfgBlocksOnly \in BOOLEAN
    /\ inbox \in [PeerIds -> Inboxes]
    /\ cbPc = [p \in PeerIds |-> "read"]
    /\ msgChan = <<>>
    /\ txProcessed = [p \in PeerIds |-> 0]
    /\ blockProcessed = [p \in PeerIds |-> 0]
    /\ knownInventory = [p \in PeerIds |-> {}]
    /\ ServiceIdle

RelayNext ==
    \/ \E sp \in PeerIds : OnTx(sp)
    \/ \E sp \in PeerIds : OnTxReturn(sp)
    \/ \E sp \in PeerIds : OnBlock(sp)
    \/ \E sp \in PeerIds : OnBlockReturn(sp)
    \/ BlockManagerProcess

RelaySpec == RelayInit /\ [][RelayNext]_vars

\* Items received from the peer that are queued in the block manager.
QueuedFrom(sp) == {k \in DOMAIN msgChan : msgChan[k].peer = sp}

\* C9: OnTx (outside blocks-only mode) and OnBlock hand the item to the block
\* manager and return only by receiving one signal from the peer's
\* txProcessed / blockProcessed channel, which then holds no further signal;
\* so at most one item received from a peer is queued in the block manager
\* and not yet processed.
OneItemPerPeer ==
    \A sp \in PeerIds :
        /\ Cardinality(QueuedFrom(sp)) <= 1
        /\ QueuedFrom(sp) # {} => cbPc[sp] # "read"
        /\ cbPc[sp] = "read" => txProcessed[sp] = 0 /\ blockProcessed[sp] = 0
        /\ txProcessed[sp] + blockProcessed[sp] <= 1

\* A peer with a second message waiting is blocked in OnTx while its
\* transaction is queued in the block manager.
OneItemPerPeerWitness ==
    \E sp \in PeerIds :
        /\ cbPc[sp] = "OnTx"
        /\ QueuedFrom(sp) # {}
        /\ inbox[sp] # <<>>
        /\ \E q \in PeerIds \ {sp} : cbPc[q] = "OnBlock" /\ blockProcessed[q] = 1

(***************************************************************************)
(* The ban score of getdata messages of any length up to the maximum.       *)
(***************************************************************************)
\* Spacing of the sampled request lengths.
LengthStep == 5000

\* Lengths of the getdata messages received: the ends of the range, the
\* lengths around the first increase of the score, and every LengthStep-th.
GetDataLengths ==
    {1, 505, 506, MaxInvPerMsg - 1, MaxInvPerMsg}
        \cup {n \in 1..MaxInvPerMsg : n % LengthStep = 0}

\* OnGetData up to the call of addBanScore, for the served peer and a message
\* of the length given; the items themselves are served as in GetDataSpec.
GetDataBanScore(len) ==
    /\ gdPc = "idle"
    /\ VersionKnown(servedPeer)
    /\ peer[servedPeer].connected
    /\ invLength' = len
    /\ addBanScore(servedPeer, 0, getDataBanScore(len))
    /\ UNCHANGED <<invList, gdPc, gdI, numAdded, notFound, waitChan, chans, sendQueue,
                   sent, continueHash>>
    /\ UNCHANGED <<registryVars, newPeers, donePeers, lifeVars, now, collabVars>>
    /\ UNCHANGED <<cfgVars, requestVars, serviceVars, relayVars>>

ScoreInit ==
    /\ \E hostOf \in HostAssignments : Serving(hostOf)
    /\ cfgDisableBanning \in BOOLEAN
    /\ banScore = [p \in PeerIds |-> [persistent |-> 0, transient |-> 0]]
    /\ GetDataIdle
    /\ RelayIdle
    /\ ServiceIdle

ScoreNext ==
    \/ \E len \in GetDataLengths : GetDataBanScore(len)
    \/ Decay(servedPeer)

ScoreSpec == ScoreInit /\ [][ScoreNext]_vars

\* C11: for every getdata of length len with 1 <= len <= MaxInvPerMsg the
\* increase uint32(len)*99/MaxInvPerMsg lies in 0..99 and the product does not
\* overflow 32 bits (the 32-bit result is the exact quotient); one maximum-size request on a peer whose score is zero
\* takes the score above half the ban threshold but not above the threshold,
\* and the peer is not banned.
GetDataIncreaseBounded ==
    [][\A len \in GetDataLengths :
          GetDataBanScore(len) =>
             /\ getDataBanScore(len) \in 0..99
             /\ getDataBanScore(len) = (len * 99) \div MaxInvPerMsg
             /\ (len = MaxInvPerMsg /\ Score(banScore[servedPeer]) = 0
                   /\ ~cfgDisableBanning /\ ~peer[servedPeer].isWhitelisted) =>
                   /\ Score(banScore'[servedPeer]) > CfgBanThreshold \div 2
                   /\ Score(banScore'[servedPeer]) <= CfgBanThreshold
                   /\ peer'[servedPeer].connected
                   /\ banPeers' = banPeers]_vars

\* A peer that had no score received one maximum-size getdata: its score is
\* 99 and it is still connected.
GetDataIncreaseBoundedWitness ==
    /\ invLength = MaxInvPerMsg
    /\ ~cfgDisableBanning
    /\ ~peer[servedPeer].isWhitelisted
    /\ banScore[servedPeer] = [persistent |-> 0, transient |-> 99]
    /\ peer[servedPeer].connected
    /\ banPeers = <<>>

(***************************************************************************)
(* The server with peers that flood it with maximum-size getdata messages.  *)
(***************************************************************************)
\* OnGetData of a maximum-size getdata message, up to the call of
\* addBanScore; the messages follow each other within seconds, so the score
\* does not decay between them.
FloodGetData(sp) ==
    /\ VersionKnown(sp)
    /\ peer[sp].connected
    /\ addBanScore(sp, 0, getDataBanScore(MaxInvPerMsg))
    /\ UNCHANGED <<registryVars, newPeers, donePeers, lifeVars, now, collabVars>>
    /\ UNCHANGED <<cfgVars, requestVars, serviceVars, getDataVars, relayVars>>

FloodNext ==
    \/ started = 0 /\ Start
    \/ shutdown = 0 /\ Stop
    \/ Tick
    \/ \E sp \in PeerIds, inbound \in BOOLEAN, isPersistent \in BOOLEAN, host \in Hosts :
          PeerConnected(sp, inbound, isPersistent, host)
    \/ \E sp \in PeerIds, msg \in VersionMsgs : OnVersion(sp, msg)
    \/ \E sp \in PeerIds : RemoteDisconnect(sp)
    \/ \E sp \in PeerIds : peerDoneHandler(sp)
    \/ \E sp \in PeerIds : FloodGetData(sp)
    \/ HandleAddPeer
    \/ HandleDonePeer
    \/ HandleBanPeer
    \/ HandleQuit
    \/ CleanupDrain
    \/ CleanupExit

FloodSpec == Init /\ [][FloodNext]_vars

\* The step in which the event loop handles the ban message at the head of
\* banPeers.
BanPeerStep == loopPc = "run" /\ banPeers # <<>> /\ banPeers' = Tail(banPeers)

Exempt(q) == peer[q].isWhitelisted /\ peer[q].inbound

\* The add-peer message at the head of newPeers is turned away: the peer is
\* disconnected and in no registry map after the step.
TurnedAway ==
    LET sp == Head(newPeers)
    IN ~Inserted(sp) /\ MapsUnchanged /\ ~peer'[sp].connected

\* A peer whose add-peer message has been handled with the server running and
\* no ban entry, and that was turned away: it is in no map, disconnected, and
\* its done message is still to come.
TurnedAwayPeer(q) ==
    /\ peer[q].phase = "versioned"
    /\ q \in bmPeers
    /\ ~Exempt(q)
    /\ ~peer[q].connected
    /\ ~peer[q].doneSent
    /\ q \notin AllPeers
    /\ \A i \in 1..Len(newPeers) : newPeers[i] # q
    /\ \A i \in 1..Len(banPeers) : banPeers[i] # q
    /\ shutdown = 0
    /\ now = 0
    /\ banned = <<>>

\* C13: an add-peer message of a peer that is not a whitelisted inbound peer
\* is turned away whenever Count()+1 > maxPeers, and the registry never holds
\* more than maxPeers peers that are not whitelisted inbound peers, so that
\* Count() <= maxPeers while no whitelisted inbound peer is registered.
CapacityLimit ==
    /\ [](Cardinality({q \in AllPeers : ~Exempt(q)}) <= cfgMaxPeers)
    /\ []((\A q \in AllPeers : ~Exempt(q)) => Count <= cfgMaxPeers)
    /\ [][AddPeerStep =>
            (maxPeersReached(Head(newPeers)) => TurnedAway)]_vars

\* The registry is full and a peer of another address has been turned away.
CapacityLimitWitness ==
    /\ Count = cfgMaxPeers
    /\ \E q \in PeerIds :
          /\ TurnedAwayPeer(q)
          /\ ConnectionsWithIP(peer[q].host) = 0

\* C14: with maxSameIP > 0, an add-peer message of a peer that is not a
\* whitelisted inbound peer is turned away whenever the registered peers of
\* its IP plus one exceed maxSameIP, and no IP ever has more than maxSameIP
\* registered peers that are not whitelisted inbound peers, so that no IP has
\* more than maxSameIP registered peers while no whitelisted inbound peer is
\* registered.  No host of the model is a loopback address.
SameIPLimit ==
    /\ [](\A ip \in Hosts :
            Cardinality({q \in AllPeers : peer[q].host = ip /\ ~Exempt(q)})
                <= CfgMaxSameIP)
    /\ []((\A q \in AllPeers : ~Exempt(q)) =>
            \A ip \in Hosts : ConnectionsWithIP(ip) <= CfgMaxSameIP)
    /\ [][AddPeerStep =>
            (maxSameIPReached(Head(newPeers)) => TurnedAway)]_vars

\* The registry has room and a peer has been turned away whose IP already
\* has maxSameIP registered peers.
SameIPLimitWitness ==
    /\ CfgMaxSameIP > 0
    /\ Count < cfgMaxPeers
    /\ \E q \in PeerIds :
          /\ TurnedAwayPeer(q)
          /\ ConnectionsWithIP(peer[q].host) = CfgMaxSameIP

\* The conditions on which admission rejects the peer: the server is shutting
\* down, the host has an active ban, or one of the two limits is reached by a
\* peer that is not a whitelisted inbound peer.
AdmissionRejects(sp) ==
    \/ shutdown # 0
    \/ peer[sp].host \in DOMAIN banned /\ now < banned[peer[sp].host]
    \/ /\ ~Exempt(sp)
       /\ \/ CfgMaxSameIP > 0 /\ ConnectionsWithIP(peer[sp].host) + 1 > CfgMaxSameIP
          \/ Count + 1 > cfgMaxPeers

MaxRelays == 1

\* relayMsg: the inventory vector (named by its type), the data that comes
\* with it and the immediate flag.  A transaction comes with the transaction;
\* a block comes with its header, or with data that is not a header.
RelayMsgs ==
    {msg \in [invVect : {"tx", "block"}, data : {"tx", "header"}, immediate : BOOLEAN] :
        msg.invVect = "tx" => msg.data = "tx"}

\* server.RelayInventory: s.relayInv <- relayMsg{...}
RelayInventory(msg) ==
    /\ Len(relayInv) < ChanCap
    /\ relayed + Len(relayInv) < MaxRelays
    /\ relayInv' = Append(relayInv, msg)
    /\ UNCHANGED <<relayed, wantsHeaders, outQueue, rebroadcastVars>>
    /\ UNCHANGED <<loopVars, cfgVars, requestVars, taskVars, observerVars, banScore, getDataVars, relayVars>>

\* peer.QueueInventory and peer.QueueInventoryImmediate: the queue of the peer
\* after the call, which is ignored when the peer is known to have the
\* inventory.
QueueInventory(sp, iv, policy) ==
    IF iv \in knownInventory[sp] THEN outQueue[sp]
    ELSE Append(outQueue[sp], [kind |-> policy, iv |-> iv])

\* serverPeer.relayTxDisabled
relayTxDisabled(sp) == peer[sp].disableRelayTx

\* The type of an inventory vector: the block, or a transaction.
InvType(iv) == IF iv = "block" THEN "block" ELSE "tx"

skipsTxNever(sp, msg) == FALSE

\* handleRelayInvMsg: a transaction is not relayed to a peer that has
\* transaction relaying disabled.
skipsTx(sp, msg) == InvType(msg.invVect) = "tx" /\ relayTxDisabled(sp)

\* handleRelayInvMsg: the closure run on each registered peer; the queue of
\* the peer after it.
relayTo(sp, msg) ==
    IF ~peer[sp].connected THEN outQueue[sp]
    ELSE IF InvType(msg.invVect) = "block" /\ wantsHeaders[sp]
    THEN IF msg.data # "header" THEN outQueue[sp]
         ELSE Append(outQueue[sp], [kind |-> "headers", iv |-> msg.invVect])
    ELSE IF skipsTx(sp, msg) THEN outQueue[sp]
    ELSE IF msg.immediate THEN QueueInventory(sp, msg.invVect, "immediate")
    ELSE QueueInventory(sp, msg.invVect, "trickle")

\* handleRelayInvMsg: the queues it leaves.
handleRelayInvMsg(msg) ==
    [p \in PeerIds |-> IF p \in AllPeers THEN relayTo(p, msg) ELSE outQueue[p]]

\* peerHandler: case invMsg := <-s.relayInv
HandleRelayInv ==
    /\ loopPc = "run"
    /\ relayInv # <<>>
    /\ outQueue' = handleRelayInvMsg(Head(relayInv))
    /\ relayInv' = Tail(relayInv)
    /\ relayed' = relayed + 1
    /\ UNCHANGED <<wantsHeaders, rebroadcastVars>>
    /\ UNCHANGED <<loopVars, cfgVars, requestVars, taskVars, observerVars, banScore, getDataVars, relayVars>>

\* The server serves registered peers, each with its relay flag from its
\* version message and its choice of announcements, and each about to send
\* transactions and blocks.
FanoutInit ==
    /\ \E disabled \in SUBSET PeerIds :
          LET hostOf == CHOOSE h \in HostAssignments : TRUE
          IN ServingPeers([p \in PeerIds |->
                 [NegotiatedPeer(hostOf[p]) EXCEPT !.disableRelayTx = p \in disabled]])
    /\ cfgDisableBanning = FALSE
    /\ banScore = [p \in PeerIds |-> [persistent |-> 0, transient |-> 0]]
    /\ GetDataIdle
    /\ cfgBlocksOnly = FALSE
    /\ inbox \in [PeerIds -> {<<>>, <<"tx">>, <<"block">>}]
    /\ cbPc = [p \in PeerIds |-> "read"]
    /\ msgChan = <<>>
    /\ txProcessed = [p \in PeerIds |-> 0]
    /\ blockProcessed = [p \in PeerIds |-> 0]
    /\ knownInventory = [p \in PeerIds |-> {}]
    /\ relayInv = <<>>
    /\ relayed = 0
    /\ wantsHeaders \in [PeerIds -> BOOLEAN]
    /\ outQueue = [p \in PeerIds |-> <<>>]
    /\ RequestIdle
    /\ RebroadcastIdle
    /\ TasksIdle
    /\ ObserverIdle

FanoutNext ==
    \/ \E sp \in PeerIds : OnTx(sp)
    \/ \E sp \in PeerIds : OnBlock(sp)
    \/ \E sp \in PeerIds : RemoteDisconnect(sp)
    \/ \E sp \in PeerIds : peerDoneHandler(sp)
    \/ HandleDonePeer
    \/ \E msg \in RelayMsgs : RelayInventory(msg)
    \/ HandleRelayInv

FanoutSpec == FanoutInit /\ [][FanoutNext]_vars

\* The event loop handles the relay message at the head of relayInv.
RelayInvStep ==
    loopPc = "run" /\ relayInv # <<>> /\ relayInv' = Tail(relayInv) /\ relayed' = relayed + 1

\* The announcement of the relay message, queued as its immediate flag says.
Announcement(msg) ==
    [kind |-> IF msg.immediate THEN "immediate" ELSE "trickle", iv |-> msg.invVect]

\* The peer is registered, connected and has transaction relay enabled.
RelaysTxTo(p) == p \in AllPeers /\ peer[p].connected /\ ~peer[p].disableRelayTx

\* C16 as stated: when the event loop relays a transaction inventory, nothing
\* is queued to a registered peer that has transaction relay disabled or is
\* not connected, and every other registered peer has the inventory queued
\* exactly once, immediately or for trickle according to the immediate flag.
RelayTxToEveryPeer ==
    [][(RelayInvStep /\ Head(relayInv).invVect = "tx") =>
         \A p \in AllPeers :
            outQueue'[p] = IF RelaysTxTo(p)
                           THEN Append(outQueue[p], Announcement(Head(relayInv)))
                           ELSE outQueue[p]]_vars

\* C16, amended: nothing is queued to a peer that is not registered, not
\* connected or has transaction relay disabled; every other peer has the
\* inventory queued exactly once, according to the immediate flag, unless it
\* is known to have the inventory, in which case nothing is queued to it.
RelayTxToPeers ==
    [][(RelayInvStep /\ Head(relayInv).invVect = "tx") =>
         \A p \in PeerIds :
            outQueue'[p] = IF RelaysTxTo(p) /\ "tx" \notin knownInventory[p]
                           THEN Append(outQueue[p], Announcement(Head(relayInv)))
                           ELSE outQueue[p]]_vars

\* A transaction has been relayed: a connected peer has it queued once, and
\* nothing is queued to a registered peer with transaction relay disabled.
RelayTxToPeersWitness ==
    /\ relayed = 1
    /\ \E p \in PeerIds, q \in PeerIds :
          /\ RelaysTxTo(p)
          /\ outQueue[p] = <<[kind |-> "trickle", iv |-> "tx"]>>
          /\ q \in AllPeers
          /\ peer[q].connected
          /\ peer[q].disableRelayTx
          /\ outQueue[q] = <<>>

(***************************************************************************)
(* The rebroadcast loop: server.rebroadcastHandler, the senders of          *)
(* modifyRebroadcastInv and randomUint16Number.                             *)
(***************************************************************************)
\* Most times the timer fires in the model.
MaxFires == 2

\* Inventory vectors of the rebroadcast map.
Invs == {"a", "b"}

\* wire.NoExpiryValue
NoExpiryValue == 0

\* Transactions: the type stake.DetermineTxType gives, the value of output 0,
\* the expiry and the hash of the previous outpoint of input 0.
Txs ==
    [isTx : {TRUE}, txType : {"regular", "SStx", "SSGen", "SSRtx"}, value : 1..2,
     expiry : {NoExpiryValue, 2}, ticket : {"t"}]

\* An ordinary transaction, the data of the rebroadcast runs.
RegularTx ==
    [isTx |-> TRUE, txType |-> "regular", value |-> 1, expiry |-> NoExpiryValue, ticket |-> "t"]

\* The states of the chain a prune may see.
Chains == [height : 1..2, nextStakeDiff : 1..2, err : BOOLEAN, live : SUBSET {"t"}]

\* The messages of modifyRebroadcastInv: broadcastInventoryAdd,
\* broadcastInventoryDel and broadcastPruneInventory.
ModifyMsgs(datas) ==
    [kind : {"add"}, invVect : Invs, data : datas]
    \cup [kind : {"del"}, invVect : Invs, data : {NotTx}]
    \cup [kind : {"prune"}, invVect : {""}, data : {NotTx}]

\* AddRebroadcastInventory, RemoveRebroadcastInventory and
\* PruneRebroadcastInventory: ignored during shutdown, otherwise the caller
\* waits at the send until the handler receives the message.
ModifyRebroadcastInv(msg) ==
    /\ shutdown = 0
    /\ modifyRebroadcastInv = <<>>
    /\ modifyRebroadcastInv' = <<msg>>
    /\ UNCHANGED <<pendingInvs, rbPc, fireDone, rebroadcasts, fires, timerInterval,
                   riv, chain>>
    /\ UNCHANGED <<loopVars, cfgVars, requestVars, fanoutVars, taskVars, observerVars, banScore, getDataVars, relayVars>>

\* pendingInvs[*msg.invVect] = msg.data
addInv(pending, iv, data) ==
    [k \in DOMAIN pending \cup {iv} |-> IF k = iv THEN data ELSE pending[k]]

deleteNothing(pending, iv) == pending

\* delete(pendingInvs, iv)
deleteInv(pending, iv) == [k \in DOMAIN pending \ {iv} |-> pending[k]]

\* blockchain.IsExpired
IsExpired(tx, height) == tx.expiry # NoExpiryValue /\ height >= tx.expiry

\* chain.CheckLiveTicket
CheckLiveTicket(hash) == hash \in chain.live

ticketStaleByValue(tx) == tx.txType = "SStx" /\ tx.value # chain.nextStakeDiff

\* broadcastPruneInventory: a ticket purchase whose amount is not the stake
\* difficulty, or that has expired.
ticketStale(tx) ==
    tx.txType = "SStx" /\ (tx.value # chain.nextStakeDiff \/ IsExpired(tx, chain.height))

\* broadcastPruneInventory: the test the code makes on a revocation.
revocationDropped(tx) == tx.txType = "SSRtx" /\ ~CheckLiveTicket(tx.ticket)

\* broadcastPruneInventory: the map it leaves.
pruneInventory(pending) ==
    IF chain.err THEN pending
    ELSE LET kept == {k \in DOMAIN pending :
                        ~(pending[k].isTx /\ (ticketStale(pending[k])
                                               \/ revocationDropped(pending[k])))}
         IN [k \in kept |-> pending[k]]

\* rebroadcastHandler: case riv := <-s.modifyRebroadcastInv
HandleModify ==
    /\ rbPc = "select"
    /\ modifyRebroadcastInv # <<>>
    /\ LET msg == Head(modifyRebroadcastInv)
       IN pendingInvs' =
            IF msg.kind = "add" THEN addInv(pendingInvs, msg.invVect, msg.data)
            ELSE IF msg.kind = "del" THEN deleteInv(pendingInvs, msg.invVect)
            ELSE pruneInventory(pendingInvs)
    /\ riv' = Head(modifyRebroadcastInv)
    /\ modifyRebroadcastInv' = <<>>
    /\ UNCHANGED <<rbPc, fireDone, rebroadcasts, fires, timerInterval, chain>>
    /\ UNCHANGED <<loopVars, cfgVars, requestVars, fanoutVars, taskVars, observerVars, banScore, getDataVars, relayVars>>

\* rebroadcastHandler: case <-timer.C
TimerFire ==
    /\ rbPc = "select"
    /\ fires < MaxFires
    /\ rbPc' = "relay"
    /\ fireDone' = {}
    /\ rebroadcasts' = <<>>
    /\ fires' = fires + 1
    /\ timerInterval' = Expired
    /\ UNCHANGED <<pendingInvs, modifyRebroadcastInv, riv, chain>>
    /\ UNCHANGED <<loopVars, cfgVars, requestVars, fanoutVars, taskVars, observerVars, banScore, getDataVars, relayVars>>

\* The immediate flag of the rebroadcast.
rebroadcastImmediate == FALSE

\* One iteration of the range loop of the timer case:
\* s.RelayInventory(&ivCopy, data, false), which waits for room in relayInv.
FireRelay ==
    /\ rbPc = "relay"
    /\ \E iv \in DOMAIN pendingInvs \ fireDone :
          LET msg == [invVect |-> iv, data |-> pendingInvs[iv],
                      immediate |-> rebroadcastImmediate]
          IN /\ Len(relayInv) < ChanCap
             /\ relayInv' = Append(relayInv, msg)
             /\ rebroadcasts' = Append(rebroadcasts, msg)
             /\ fireDone' = fireDone \cup {iv}
    /\ UNCHANGED <<pendingInvs, modifyRebroadcastInv, rbPc, fires, timerInterval,
                   riv, chain>>
    /\ UNCHANGED <<relayed, wantsHeaders, outQueue>>
    /\ UNCHANGED <<loopVars, cfgVars, requestVars, taskVars, observerVars, banScore, getDataVars, relayVars>>

\* The range loop has visited every entry: randomUint16Number(1800) is called.
FireDone ==
    /\ rbPc = "relay"
    /\ fireDone = DOMAIN pendingInvs
    /\ rbPc' = "random"
    /\ UNCHANGED <<pendingInvs, modifyRebroadcastInv, fireDone, rebroadcasts, fires,
                   timerInterval, riv, chain>>
    /\ UNCHANGED <<loopVars, cfgVars, requestVars, fanoutVars, taskVars, observerVars, banScore, getDataVars, relayVars>>

\* math.MaxUint16
MaxUint16 == 65535

\* The argument of randomUint16Number in the timer case.
RebroadcastMax == 1800

limitRangeWhole(max) == MaxUint16 + 1

\* randomUint16Number: limitRange
limitRange(max) == (MaxUint16 \div max) * max

\* randomUint16Number: the sample is returned, not discarded.
accepts(max, sample) == sample < limitRange(max)

randomResultInclusive(max, sample) == sample % (max + 1)

\* randomUint16Number: the value returned for an accepted sample.
randomResult(max, sample) == sample % max

\* randomUint16Number reads a sample and returns it reduced, or discards it
\* and reads again; on the return the timer is reset to that number of
\* seconds.
TimerReset(sample) ==
    /\ rbPc = "random"
    /\ IF accepts(RebroadcastMax, sample)
       THEN /\ timerInterval' = randomResult(RebroadcastMax, sample)
            /\ rbPc' = "select"
       ELSE UNCHANGED <<timerInterval, rbPc>>
    /\ UNCHANGED <<pendingInvs, modifyRebroadcastInv, fireDone, rebroadcasts, fires, riv, chain>>
    /\ UNCHANGED <<loopVars, cfgVars, requestVars, fanoutVars, taskVars, observerVars, banScore, getDataVars, relayVars>>

\* Samples of the random source: the whole range of a uint16, and a few of
\* them for the runs that are not about the timer.
Samples == 0..MaxUint16
FewSamples == {0, limitRange(RebroadcastMax) - 1, limitRange(RebroadcastMax)}

\* The server is running; nothing is pending for rebroadcast.
RebroadcastInit ==
    /\ Serving(CHOOSE hostOf \in HostAssignments : TRUE)
    /\ BanIdle
    /\ GetDataIdle
    /\ RelayIdle
    /\ ServiceIdle

\* A ticket purchase whose amount is not the stake difficulty of GenesisChain.
StaleTicket == [RegularTx EXCEPT !.txType = "SStx", !.value = 2]

RebroadcastNext ==
    \/ \E msg \in ModifyMsgs({RegularTx, StaleTicket}) : ModifyRebroadcastInv(msg)
    \/ HandleModify
    \/ TimerFire
    \/ FireRelay
    \/ FireDone
    \/ \E sample \in FewSamples : TimerReset(sample)
    \/ HandleRelayInv

RebroadcastSpec == RebroadcastInit /\ [][RebroadcastNext]_vars

\* The timer alone, with every sample of the random source.
TimerNext ==
    \/ TimerFire
    \/ FireDone
    \/ \E sample \in Samples : TimerReset(sample)

TimerSpec == RebroadcastInit /\ [][TimerNext]_vars

\* The map as add messages can have left it, and any state of the chain.
PendingMaps ==
    UNION {[ivs -> Txs \cup {NotTx}] : ivs \in SUBSET Invs}

PruneInit ==
    /\ Serving(CHOOSE hostOf \in HostAssignments : TRUE)
    /\ BanIdle
    /\ GetDataIdle
    /\ RelayIdle
    /\ RequestIdle
    /\ FanoutIdle
    /\ TasksIdle
    /\ ObserverIdle
    /\ pendingInvs \in PendingMaps
    /\ modifyRebroadcastInv = <<>>
    /\ rbPc = "select"
    /\ fireDone = {}
    /\ rebroadcasts = <<>>
    /\ fires = 0
    /\ timerInterval = InitialDelay
    /\ riv = NoMsg
    /\ chain \in Chains

PruneNext ==
    \/ \E msg \in ModifyMsgs({RegularTx}) : ModifyRebroadcastInv(msg)
    \/ HandleModify

PruneSpec == PruneInit /\ [][PruneNext]_vars

\* The rebroadcast handler receives the message a sender waits to hand over.
ModifyStep == modifyRebroadcastInv # <<>> /\ modifyRebroadcastInv' = <<>>

\* The relay messages for the inventory sent since the timer last fired.
Rebroadcasts(iv) == {k \in DOMAIN rebroadcasts : rebroadcasts[k].invVect = iv}

\* C17: when the range loop of a timer fire ends, every inventory of the map
\* has been relayed once, with its data and immediate = false, and no other
\* inventory has been relayed; the map does not change during the fire; an
\* inventory leaves the map only by a del for it or by a prune, and enters it
\* only by an add for it; a del leaves the inventory out of the map.
RebroadcastOnFire ==
    /\ [][(rbPc = "relay" /\ rbPc' = "random") =>
            \A iv \in Invs :
               IF iv \in DOMAIN pendingInvs
               THEN /\ Cardinality(Rebroadcasts(iv)) = 1
                    /\ \A k \in Rebroadcasts(iv) :
                          /\ rebroadcasts[k].immediate = FALSE
                          /\ rebroadcasts[k].data = pendingInvs[iv]
               ELSE Rebroadcasts(iv) = {}]_vars
    /\ [][rbPc = "relay" => pendingInvs' = pendingInvs]_vars
    /\ [][\A iv \in Invs :
            /\ (iv \in DOMAIN pendingInvs /\ iv \notin DOMAIN pendingInvs') =>
                  /\ ModifyStep
                  /\ \/ riv'.kind = "del" /\ riv'.invVect = iv
                     \/ riv'.kind = "prune"
            /\ (iv \notin DOMAIN pendingInvs /\ iv \in DOMAIN pendingInvs') =>
                  ModifyStep /\ riv'.kind = "add" /\ riv'.invVect = iv
            /\ (ModifyStep /\ riv'.kind = "del" /\ riv'.invVect = iv) =>
                  iv \notin DOMAIN pendingInvs'
            /\ (ModifyStep /\ riv'.kind = "add" /\ riv'.invVect = iv) =>
                  iv \in DOMAIN pendingInvs' /\ pendingInvs'[iv] = riv'.data]_vars

\* The timer has fired twice; the second fire, after the del of one pending
\* inventory, has relayed the other one only.
RebroadcastOnFireWitness ==
    /\ fires = 2
    /\ rbPc = "random"
    /\ riv = [kind |-> "del", invVect |-> "b", data |-> NotTx]
    /\ DOMAIN pendingInvs = {"a"}
    /\ rebroadcasts = <<[invVect |-> "a", data |-> RegularTx, immediate |-> FALSE]>>
    /\ \E p \in PeerIds : \E k \in DOMAIN outQueue[p] : outQueue[p][k].iv = "b"

\* The rebroadcast handler receives a prune message.
PruneStep == ModifyStep /\ Head(modifyRebroadcastInv).kind = "prune"

\* The pending revocations.
Revocations == {iv \in DOMAIN pendingInvs :
                   pendingInvs[iv].isTx /\ pendingInvs[iv].txType = "SSRtx"}

\* C18 as stated: on a prune with the next stake difficulty computed without
\* error, a pending revocation is removed from the map when the ticket of the
\* previous outpoint of its first input is still live, and is kept otherwise.
RevocationPrunedIfLive ==
    [][(PruneStep /\ ~chain.err) =>
         \A iv \in Revocations :
            iv \notin DOMAIN pendingInvs' <=> pendingInvs[iv].ticket \in chain.live]_vars

\* What the handler does: the revocation is removed when the ticket is not
\* live and kept when it is.
RevocationPrunedIfNotLive ==
    [][(PruneStep /\ ~chain.err) =>
         \A iv \in Revocations :
            iv \notin DOMAIN pendingInvs' <=> pendingInvs[iv].ticket \notin chain.live]_vars

\* A prune has left a revocation of a live ticket in the map.
RevocationKeptWitness ==
    /\ riv.kind = "prune"
    /\ ~chain.err
    /\ \E iv \in Revocations : pendingInvs[iv].ticket \in chain.live

\* The pending entries a prune never touches: data that is not a
\* transaction, and ordinary transactions.
Ordinary(iv) == ~pendingInvs[iv].isTx \/ pendingInvs[iv].txType = "regular"

\* C19: on a prune, a pending ticket purchase is removed exactly when the
\* value of its output 0 differs from the next stake difficulty or it is
\* expired at the best height; ordinary transactions and data that is not a
\* transaction stay, with their data; and when the next stake difficulty
\* cannot be computed the map is left unchanged.
TicketPrune ==
    [][PruneStep =>
         IF chain.err THEN pendingInvs' = pendingInvs
         ELSE \A iv \in DOMAIN pendingInvs :
                /\ (pendingInvs[iv].isTx /\ pendingInvs[iv].txType = "SStx") =>
                      (iv \notin DOMAIN pendingInvs' <=>
                          \/ pendingInvs[iv].value # chain.nextStakeDiff
                          \/ IsExpired(pendingInvs[iv], chain.height))
                /\ Ordinary(iv) =>
                      iv \in DOMAIN pendingInvs' /\ pendingInvs'[iv] = pendingInvs[iv]
                /\ iv \in DOMAIN pendingInvs' => pendingInvs'[iv] = pendingInvs[iv]]_vars

\* A prune has kept a ticket purchase whose value is the stake difficulty and
\* whose expiry is still ahead, next to an ordinary transaction.
TicketPruneWitness ==
    /\ riv.kind = "prune"
    /\ ~chain.err
    /\ \E iv \in DOMAIN pendingInvs, other \in DOMAIN pendingInvs :
          /\ pendingInvs[iv].txType = "SStx"
          /\ pendingInvs[iv].expiry # NoExpiryValue
          /\ pendingInvs[other].txType = "regular"

\* The timer is reset: randomUint16Number has returned.
TimerResetStep == rbPc = "random" /\ rbPc' = "select"

\* C20 as stated: every time the timer is reset after firing, the interval
\* is a whole number of seconds in the closed range [1, 1800].
IntervalFromOne ==
    [][TimerResetStep => timerInterval' \in 1..RebroadcastMax]_vars

\* C20, amended: every time the timer is reset after firing, the interval is
\* a whole number of seconds in the closed range [0, 1799], for every sample
\* the random source can give; samples from 64800 on are discarded.
IntervalFromZero ==
    /\ [][TimerResetStep => timerInterval' \in 0..(RebroadcastMax - 1)]_vars
    /\ [](timerInterval \in {InitialDelay, Expired} \cup 0..(RebroadcastMax - 1))

\* The timer has fired and has been reset to zero seconds.
IntervalFromZeroWitness ==
    /\ fires >= 1
    /\ rbPc = "select"
    /\ timerInterval = 0


\* Arguments of randomUint16Number the counts are taken for.
SampleMaxes == {1, 7, 255, RebroadcastMax}

\* The samples value + k * max: every sample that max turns into value is
\* one of them (SamplerUnbiased checks it of each accepted sample).
Congruent(max, value) ==
    {value + k * max : k \in 0..(MaxUint16 \div max)} \cap Samples

\* The accepted samples that randomUint16Number(max) turns into value.
AcceptedFor(max, value) ==
    {r \in Congruent(max, value) :
        accepts(max, r) /\ randomResult(max, r) = value}

MaxReports == 3

\* Version messages of full nodes that report this node's address.
ReportMsgs ==
    [ProtocolVersion : {InitialProcotolVersion},
     Services : {SFNodeNetwork + SFNodeCF},
     AddrYou : ReportHosts \cup {Unroutable},
     DisableRelayTx : RelayFlags]

\* The reports of host that are counted or wait on newPeers.
Reported(host) ==
    (IF host \in SuggestedHosts THEN suggestions[host] ELSE 0)
    + Cardinality({i \in 1..Len(newPeers) : peer[newPeers[i]].peerNa = host})

\* outboundPeerConnected for a later connection: the peer it creates takes
\* the place of one the server holds nothing of any more.
Redial(sp, host) ==
    /\ loopPc = "run"
    /\ peer[sp].phase = "gone"
    /\ peer' = [peer EXCEPT ![sp] = newServerPeer(FALSE, FALSE, host)]
    /\ UNCHANGED <<callbackVars, registryVars, chanVars, lifeVars, now, collabVars>>

\* The server is running and has no peer yet.
DiscoveryInit ==
    /\ peer = [p \in PeerIds |-> NoPeer("new")]
    /\ inboundPeers = {}
    /\ outboundPeers = {}
    /\ persistentPeers = {}
    /\ banned = <<>>
    /\ outboundGroups = [g \in Groups |-> 0]
    /\ suggestions = NoSuggestions
    /\ localAddresses = {}
    /\ newPeers = <<>>
    /\ donePeers = <<>>
    /\ banPeers = <<>>
    /\ started = 1
    /\ shutdown = 0
    /\ quit = FALSE
    /\ loopPc = "run"
    /\ now = 0
    /\ bmPeers = {}
    /\ cfgMaxPeers = CfgMaxPeers
    /\ BanIdle
    /\ GetDataIdle
    /\ RelayIdle
    /\ ServiceIdle

DiscoveryNext ==
    \/ \E sp \in PeerIds, host \in Hosts : PeerConnected(sp, FALSE, FALSE, host)
    \/ \E sp \in PeerIds, host \in Hosts : Redial(sp, host)
    \/ \E sp \in PeerIds, msg \in ReportMsgs :
          Reported(msg.AddrYou) < MaxReports /\ OnVersion(sp, msg)
    \/ \E sp \in PeerIds : RemoteDisconnect(sp)
    \/ \E sp \in PeerIds : peerDoneHandler(sp)
    \/ HandleAddPeer
    \/ HandleDonePeer

DiscoverySpec == DiscoveryInit /\ [][DiscoveryNext]_vars

\* C22: a reported host becomes a local address only in a step that leaves
\* its tally at two or more, and a local address always has such a tally: a
\* host that a single admitted outbound peer reported is never registered.
RegisteredAtTwo ==
    /\ [][\A h \in SuggestedHosts :
            (h \in localAddresses' /\ h \notin localAddresses) =>
               /\ suggestions'[h] >= 2
               /\ suggestions' # suggestions]_vars
    /\ [](\A h \in SuggestedHosts : suggestions[h] <= 1 => h \notin localAddresses)
    /\ [](localAddresses \subseteq SuggestedHosts)

\* One host is registered on its second report while the other host has
\* been reported once.
RegisteredAtTwoWitness ==
    \E h \in ReportHosts, g \in ReportHosts :
       /\ localAddresses = {h}
       /\ suggestions[h] = 2
       /\ suggestions[g] = 1

\* The host that three peers report and the host that two peers report.
HostA == "203.0.113.7"
HostB == "198.51.100.9"

\* The five admissions have been handled.
FiveAdmitted ==
    /\ suggestions[HostA] = 3
    /\ suggestions[HostB] = 2
    /\ newPeers = <<>>

\* C23 as stated: after the five admissions both hosts are registered, in
\* whatever order the admissions were handled.
BothRegistered == FiveAdmitted => {HostA, HostB} \subseteq localAddresses

\* The second report of HostB is counted.
SecondOfB == suggestions[HostB] = 1 /\ suggestions'[HostB] = 2

\* C23: after the five admissions HostA is registered in every order.
\* HostB is registered by the admission that counts its second report when
\* HostA has fewer than two reports by then, is not registered by it when
\* HostA has three, and is registered by a step only when its tally is then
\* no smaller than that of HostA.
BestRegistered ==
    /\ [](FiveAdmitted => HostA \in localAddresses)
    /\ [][SecondOfB =>
            /\ suggestions[HostA] < 2 => HostB \in localAddresses'
            /\ suggestions[HostA] > 2 => HostB \notin localAddresses']_vars
    /\ [][(HostB \in localAddresses' /\ HostB \notin localAddresses) =>
            suggestions'[HostB] >= suggestions'[HostA]]_vars

\* The five admissions have been handled and only HostA is registered.
BestRegisteredWitness == FiveAdmitted /\ localAddresses = {HostA}

(***************************************************************************)
(* Start, Stop and the exit of the two loops.                               *)
(***************************************************************************)
\* rebroadcastHandler: case <-s.quit, followed by timer.Stop()
RebroadcastQuit ==
    /\ rbPc = "select"
    /\ quit
    /\ rbPc' = "cleanup"
    /\ UNCHANGED <<pendingInvs, modifyRebroadcastInv, fireDone, rebroadcasts, fires,
                   timerInterval, riv, chain>>
    /\ UNCHANGED <<loopVars, cfgVars, requestVars, fanoutVars, taskVars, observerVars, banScore, getDataVars, relayVars>>

\* rebroadcastHandler, cleanup loop: case <-s.modifyRebroadcastInv
RebroadcastDrain ==
    /\ rbPc = "cleanup"
    /\ modifyRebroadcastInv # <<>>
    /\ modifyRebroadcastInv' = <<>>
    /\ UNCHANGED <<pendingInvs, rbPc, fireDone, rebroadcasts, fires, timerInterval,
                   riv, chain>>
    /\ UNCHANGED <<loopVars, cfgVars, requestVars, fanoutVars, taskVars, observerVars, banScore, getDataVars, relayVars>>

\* rebroadcastHandler, cleanup loop: default, then s.wg.Done()
RebroadcastExit ==
    /\ rbPc = "cleanup"
    /\ modifyRebroadcastInv = <<>>
    /\ rbPc' = "done"
    /\ wg' = wg - 1
    /\ UNCHANGED <<pendingInvs, modifyRebroadcastInv, fireDone, rebroadcasts, fires,
                   timerInterval, riv, chain>>
    /\ UNCHANGED <<loopVars, cfgVars, requestVars, fanoutVars, quitCloses, observerVars, banScore, getDataVars,
                   relayVars>>

\* The version message of a full node.
FullNodeMsg ==
    [ProtocolVersion |-> InitialProcotolVersion, Services |-> SFNodeNetwork + SFNodeCF,
     AddrYou |-> CHOOSE h \in AddrYous : TRUE, DisableRelayTx |-> FALSE]

\* The host the peers of a stopping server connect from.
LifecycleHost == CHOOSE host \in Hosts : ~isWhitelisted(host)

\* The rebroadcast inventory the RPC server adds.
LifecycleMsgs == {msg \in ModifyMsgs({RegularTx}) : msg.kind = "add"}

LifecycleNext ==
    \/ Start
    \/ Stop
    \/ PeerConnected(1, TRUE, FALSE, LifecycleHost)
    \/ \E sp \in PeerIds : OnVersion(sp, FullNodeMsg)
    \/ \E sp \in PeerIds : RemoteDisconnect(sp)
    \/ \E sp \in PeerIds : peerDoneHandler(sp)
    \/ \E sp \in PeerIds : BanPeer(sp)
    \/ HandleAddPeer
    \/ HandleDonePeer
    \/ HandleBanPeer
    \/ \E msg \in LifecycleMsgs : ModifyRebroadcastInv(msg)
    \/ HandleModify
    \/ TimerFire
    \/ FireRelay
    \/ FireDone
    \/ TimerReset(0)
    \/ HandleRelayInv
    \/ HandleQuit
    \/ CleanupDrain
    \/ CleanupExit
    \/ RebroadcastQuit
    \/ RebroadcastDrain
    \/ RebroadcastExit

LifecycleSpec == Init /\ [][LifecycleNext]_vars

\* C24: however often Start and Stop are called, the tasks are spawned by the
\* first call of Start and by no other step, and quit is closed by the first
\* call of Stop and by no other step: a later Stop changes nothing but the
\* call counter.
StartStopOnce ==
    /\ [](wg <= Tasks /\ quitCloses <= 1)
    /\ [](quitCloses = (IF shutdown >= 1 THEN 1 ELSE 0) /\ quit = (shutdown >= 1))
    /\ [][wg' > wg => (started = 0 /\ started' = 1)]_vars
    /\ [][(started = 0 /\ started' = 1) => (wg' = wg + Tasks /\ loopPc' = "run")]_vars
    /\ [][(started >= 1 /\ started' > started) =>
            UNCHANGED <<loopPc, wg, rbPc, quit, quitCloses>>]_vars
    /\ [][quitCloses' # quitCloses => (shutdown = 0 /\ shutdown' = 1)]_vars
    /\ [][(shutdown >= 1 /\ shutdown' > shutdown) =>
            UNCHANGED <<quit, quitCloses, wg, loopPc, rbPc, peer, chanVars>>]_vars

\* Start and Stop have been called again and both loops have exited.
StartStopOnceWitness ==
    /\ started = MaxStartCalls
    /\ shutdown = MaxStopCalls
    /\ quitCloses = 1
    /\ wg = 0

(***************************************************************************)
(* Shutdown of a server without peers: every step of the two loops that can *)
(* be taken is eventually taken, and a select that finds quit closed again  *)
(* and again eventually takes that case.                                    *)
(***************************************************************************)
ShutdownNext ==
    \/ Start
    \/ Stop
    \/ \E msg \in LifecycleMsgs : ModifyRebroadcastInv(msg)
    \/ HandleModify
    \/ TimerFire
    \/ FireRelay
    \/ FireDone
    \/ TimerReset(0)
    \/ HandleRelayInv
    \/ HandleQuit
    \/ CleanupDrain
    \/ CleanupExit
    \/ RebroadcastQuit
    \/ RebroadcastDrain
    \/ RebroadcastExit

ShutdownSpec ==
    /\ Init
    /\ [][ShutdownNext]_vars
    /\ WF_vars(HandleModify)
    /\ WF_vars(FireRelay)
    /\ WF_vars(FireDone)
    /\ WF_vars(TimerReset(0))
    /\ WF_vars(HandleRelayInv)
    /\ SF_vars(HandleQuit)
    /\ WF_vars(CleanupDrain)
    /\ WF_vars(CleanupExit)
    /\ SF_vars(RebroadcastQuit)
    /\ WF_vars(RebroadcastDrain)
    /\ WF_vars(RebroadcastExit)

\* Stop has been called on a started server.
Stopped == started >= 1 /\ shutdown >= 1

\* C25: after Stop has been called on a started server, the peer event loop
\* and the rebroadcast loop both eventually exit and the wait group reaches
\* zero, so that WaitForShutdown returns.
ShutdownCompletes == Stopped ~> (loopPc = "done" /\ rbPc = "done" /\ wg = 0)

\* The peer event loop has exited and the rebroadcast loop waits in
\* RelayInventory for room in relayInv, which nothing receives from any more.
RelayStuck ==
    /\ loopPc = "done"
    /\ rbPc = "relay"
    /\ fireDone # DOMAIN pendingInvs
    /\ Len(relayInv) = ChanCap

\* The peer event loop takes the quit case.
QuitStep == loopPc = "run" /\ loopPc' = "cleanup"

\* The cleanup loop finds nothing to receive and the loop exits.
ExitStep == loopPc = "cleanup" /\ loopPc' = "done"

\* C26: on quit the event loop disconnects every peer of the three registry
\* maps, and when it exits after the drain no message is left in newPeers,
\* donePeers, banPeers or relayInv.
DrainedOnExit ==
    /\ [][QuitStep => \A sp \in AllPeers : ~peer'[sp].connected]_vars
    /\ [][ExitStep =>
            (newPeers = <<>> /\ donePeers = <<>> /\ banPeers = <<>> /\ relayInv = <<>>)]_vars

\* The channels that the cleanup loop receives from are empty when it exits,
\* and the registered peers are disconnected by the quit case.
DrainedButBans ==
    /\ [][QuitStep => \A sp \in AllPeers : ~peer'[sp].connected]_vars
    /\ [][ExitStep => (newPeers = <<>> /\ donePeers = <<>> /\ relayInv = <<>>)]_vars

\* The loop has exited and a peer to ban is still in banPeers.
BanLeftBehind == loopPc = "done" /\ banPeers # <<>>

(***************************************************************************)
(* Queries and done messages, with the reply of each handler and the calls  *)
(* it makes on the connection manager and the address manager.              *)
(***************************************************************************)
\* The codec receives the verack of the peer, after its version.
VerAck(sp) ==
    /\ VersionKnown(sp)
    /\ peer[sp].connected
    /\ ~peer[sp].verAckReceived
    /\ peer' = [peer EXCEPT ![sp].verAckReceived = TRUE]
    /\ UNCHANGED <<callbackVars, registryVars, chanVars, lifeVars, now, collabVars>>

\* What is observed of a handler.
Observe(handler, target, sp, reply, cmConnect, cmRemove, cmDisconnect, amConnected) ==
    [NoEffects EXCEPT
       !.handler = handler, !.seq = 1 - effects.seq, !.target = target, !.sp = sp,
       !.reply = reply, !.cmConnect = cmConnect, !.cmRemove = cmRemove,
       !.cmDisconnect = cmDisconnect, !.amConnected = amConnected]

ObservedAddPeer ==
    /\ ReceiveAddPeer
    /\ UNCHANGED facadeCalls
    /\ effects' = Observe("addPeer", NoTarget, Head(newPeers), "", "", 0, 0, 0)

\* handleDonePeerMsg: the peer is in the list it belongs to.
doneFound(sp) == sp \in ListOf(doneList(sp))

\* handleDonePeerMsg: s.connManager.Disconnect(sp.connReq.ID()) is called.
doneDisconnects(sp) ==
    IF doneFound(sp) THEN ~peer[sp].inbound /\ peer[sp].connReq
    ELSE peer[sp].connReq

\* peer.NA() is not nil: an outbound peer has it from the start, an inbound
\* peer from its version message.
hasNA(sp) == ~peer[sp].inbound \/ VersionKnown(sp)

\* peer.VerAckReceived() && peer.VersionKnown() && peer.NA() != nil
exchangedVersions(sp) == peer[sp].verAckReceived /\ VersionKnown(sp) /\ hasNA(sp)

\* handleDonePeerMsg: s.addrManager.Connected(sp.NA()) is called.
doneMarksConnected(sp) == ~doneFound(sp) /\ exchangedVersions(sp)

ObservedDonePeer ==
    /\ ReceiveDonePeer
    /\ UNCHANGED facadeCalls
    /\ LET sp == Head(donePeers)
       IN effects' = [Observe("donePeer", NoTarget, sp, "", "", 0,
                              IF doneDisconnects(sp) THEN sp ELSE 0,
                              IF doneMarksConnected(sp) THEN sp ELSE 0)
                         EXCEPT !.list = doneList(sp), !.found = doneFound(sp)]

\* The outbound peers that disconnectPeer can find.
outboundMatches(target) == {q \in outboundPeers : cmp(target, q)}

\* handleQuery, case disconnectNodeMsg: msg.reply
disconnectNodeReply(target) ==
    IF inboundMatches(target) # {} THEN "nil"
    ELSE IF outboundMatches(target) # {} THEN "nil"
    ELSE "peer not found"

\* DisconnectNodeByAddr, DisconnectNodeByID
DisconnectNode(target) ==
    /\ ReceiveDisconnectNode(target)
    /\ UNCHANGED facadeCalls
    /\ effects' = Observe("disconnectNode", target, 0, disconnectNodeReply(target),
                          "", 0, 0, 0)

\* RemoveNodeByAddr, RemoveNodeByID: the reply, and connManager.Remove for the
\* peer that disconnectPeer found.
RemoveNode(target) ==
    /\ ReceiveRemoveNode(target)
    /\ UNCHANGED facadeCalls
    /\ LET removed == persistentPeers \ persistentPeers'
           found == IF removed = {} THEN NotFound ELSE CHOOSE q \in removed : TRUE
       IN effects' = Observe("removeNode", target, found,
                             IF found = NotFound THEN "peer not found" ELSE "nil",
                             "", found, 0, 0)

registryHas(addr) == \E q \in AllPeers : peer[q].host = addr

\* handleQuery, case connectNodeMsg: a persistent peer has the address.
persistentHas(addr) == \E q \in persistentPeers : peer[q].host = addr

\* handleQuery, case connectNodeMsg: msg.reply
connectNodeReply(addr, permanent) ==
    IF Count >= cfgMaxPeers THEN "max peers reached"
    ELSE IF persistentHas(addr)
    THEN (IF permanent THEN "peer already connected"
          ELSE "peer exists as a permanent peer")
    ELSE "nil"

\* ConnectNode: the reply, and connManager.Connect when the reply is nil.
ConnectNode(addr, permanent) ==
    /\ ReceiveConnectNode(addr, permanent)
    /\ UNCHANGED facadeCalls
    /\ effects' = Observe("connectNode", [by |-> "addr", id |-> 0, addr |-> addr], 0,
                          connectNodeReply(addr, permanent),
                          IF connectNodeReply(addr, permanent) = "nil" THEN addr ELSE "",
                          0, 0, 0)

QueryNext ==
    \/ \E sp \in PeerIds, inbound \in BOOLEAN, isPersistent \in BOOLEAN, host \in Hosts :
          PeerConnected(sp, inbound, isPersistent, host)
    \/ \E sp \in PeerIds : OnVersion(sp, FullNodeMsg)
    \/ \E sp \in PeerIds : VerAck(sp)
    \/ \E sp \in PeerIds : RemoteDisconnect(sp)
    \/ \E sp \in PeerIds : peerDoneHandler(sp)
    \/ ObservedAddPeer
    \/ ObservedDonePeer
    \/ \E target \in Targets : DisconnectNode(target)
    \/ \E target \in Targets : RemoveNode(target)
    \/ \E addr \in Hosts, permanent \in BOOLEAN : ConnectNode(addr, permanent)

QuerySpec == DiscoveryInit /\ [][QueryNext]_vars

\* The peers of sps that the target of a query designates.
Targeted(t, sps) ==
    {q \in sps : IF t.by = "id" THEN q = t.id ELSE peer[q].host = t.addr}

\* A disconnect query is handled.
DisconnectStep == effects'.handler = "disconnectNode" /\ effects'.seq # effects.seq

\* C27 as stated: the disconnect query replies 'peer not found' exactly when
\* no registered peer, inbound, outbound or persistent, is the target.
DisconnectSearchesAll ==
    [][DisconnectStep =>
         (effects'.reply = "peer not found" <=> Targeted(effects'.target, AllPeers) = {})]_vars

\* C27: the disconnect query replies 'peer not found' exactly when no peer of
\* inboundPeers or outboundPeers is the target, persistentPeers not being
\* searched, and then changes nothing.  Otherwise it replies nil and either
\* one targeted inbound peer is removed and disconnected, the outbound peers
\* being left alone, or, no inbound peer being targeted, every targeted
\* outbound peer is removed and disconnected.
DisconnectSearchesTwo ==
    [][DisconnectStep =>
         LET t == effects'.target
             inM == Targeted(t, inboundPeers)
             outM == Targeted(t, outboundPeers)
         IN /\ effects'.reply \in {"nil", "peer not found"}
            /\ effects'.reply = "peer not found" <=> (inM = {} /\ outM = {})
            /\ persistentPeers' = persistentPeers
            /\ inM # {} =>
                  /\ \E q \in inM : /\ inboundPeers' = inboundPeers \ {q}
                                     /\ ~peer'[q].connected
                  /\ outboundPeers' = outboundPeers
                  /\ outboundGroups' = outboundGroups
            /\ inM = {} =>
                  /\ inboundPeers' = inboundPeers
                  /\ outboundPeers' = outboundPeers \ outM
                  /\ \A q \in outM : ~peer'[q].connected
            /\ effects'.reply = "peer not found" => UNCHANGED <<registryVars, peer>>]_vars

\* 'peer not found' has been replied for a target that is a registered
\* persistent peer, and an inbound peer has been disconnected by a query
\* while an outbound peer of the same address stays registered.
DisconnectSearchesTwoWitness ==
    /\ effects.handler = "disconnectNode"
    /\ \/ /\ effects.reply = "peer not found"
          /\ Targeted(effects.target, persistentPeers) # {}
       \/ /\ effects.reply = "nil"
          /\ effects.target.by = "addr"
          /\ Targeted(effects.target, outboundPeers) # {}

\* A connect query is handled.
ConnectStep == effects'.handler = "connectNode" /\ effects'.seq # effects.seq

RemoveStep == effects'.handler = "removeNode" /\ effects'.seq # effects.seq

\* A done message is handled.
DoneStep == effects'.handler = "donePeer" /\ effects'.seq # effects.seq

\* C29: a remove query that finds a persistent peer replies nil, removes one
\* such peer from persistentPeers, removes its connection request from the
\* connection manager and disconnects it, and the handling of the done
\* message of a persistent peer without connection request calls no
\* Disconnect on the connection manager; only a removed peer is such a peer.
\* A remove query that finds none replies 'peer not found' and changes nothing.
RemoveClearsRequest ==
    /\ [][RemoveStep =>
            LET pm == Targeted(effects'.target, persistentPeers)
            IN /\ pm = {} =>
                     /\ effects'.reply = "peer not found"
                     /\ effects'.cmRemove = 0
                     /\ UNCHANGED <<registryVars, peer, chanVars>>
               /\ pm # {} =>
                     /\ effects'.reply = "nil"
                     /\ \E q \in pm : /\ persistentPeers' = persistentPeers \ {q}
                                        /\ effects'.cmRemove = q
                                        /\ ~peer'[q].connReq
                                        /\ ~peer'[q].connected]_vars
    /\ [][DoneStep =>
            LET sp == effects'.sp
            IN (peer[sp].persistent /\ ~peer[sp].connReq) =>
                  (effects'.cmDisconnect = 0 /\ sp \notin persistentPeers)]_vars
    /\ [][\A q \in PeerIds :
            (peer[q].persistent /\ peer[q].connReq /\ peer'[q].persistent
               /\ ~peer'[q].connReq) =>
                  (RemoveStep /\ effects'.cmRemove = q)]_vars

\* The done message of a removed persistent peer has been handled without a
\* call of Disconnect on the connection manager.
RemoveClearsRequestWitness ==
    /\ effects.handler = "donePeer"
    /\ effects.list = "persistent"
    /\ ~effects.found
    /\ effects.cmDisconnect = 0

\* C30: the handling of the done message of a peer that is in the map it
\* belongs to, has received the verack and sent its version, and has a known
\* address, marks the address Connected in the address manager and removes
\* the peer from the map.
DoneMarksConnected ==
    [][DoneStep =>
         LET sp == effects'.sp
         IN (sp \in AllPeers /\ peer[sp].verAckReceived /\ peer[sp].phase = "versioned") =>
               (effects'.amConnected = sp /\ sp \notin AllPeers')]_vars

\* What the handler does: it marks Connected only the address of a peer that
\* it does not find in the map, and removes the peer that it finds.
DoneMarksUnknownOnly ==
    [][DoneStep =>
         LET sp == effects'.sp
         IN /\ effects'.amConnected # 0 =>
                 (sp \notin AllPeers /\ peer[sp].verAckReceived)
            /\ sp \notin AllPeers']_vars

\* A registered peer that exchanged versions is done and no address has been
\* marked.
DoneUnmarked ==
    /\ effects.handler = "donePeer"
    /\ effects.found
    /\ effects.amConnected = 0


(***************************************************************************)
(* The address manager calls of OnVersion.                                  *)
(***************************************************************************)
\* OnVersion ignored the version (too old) or answered it with a reject.
Refused(q) ==
    /\ peer[q].phase = "versioned"
    /\ (peer[q].protoVer < InitialProcotolVersion \/ peer[q].reject # "")

\* C31 as stated: when the version is rejected or ignored, OnVersion has made
\* no call on the address manager for the peer's address.
ServicesOnSuccessOnly ==
    \A q \in PeerIds :
       Refused(q) => peer[q].amSetServices = -1 /\ ~peer[q].amGood

\* C31, amended: OnVersion records the advertised services of every outbound
\* peer, whether the version is then ignored, rejected or accepted, and of no
\* inbound peer; it marks the address good only when the version is accepted.
ServicesRecordedFirst ==
    \A q \in PeerIds :
       peer[q].phase = "versioned" =>
          /\ peer[q].amSetServices = IF peer[q].inbound THEN -1 ELSE peer[q].services
          /\ peer[q].amGood <=> (~peer[q].inbound /\ ~Refused(q))

\* One outbound peer was ignored for its old version and one in the other
\* connection was rejected for its services; the services of both are recorded.
ServicesRecordedFirstWitness ==
    \E q, r \in PeerIds :
       /\ Refused(q) /\ ~peer[q].inbound
       /\ peer[q].protoVer < InitialProcotolVersion
       /\ peer[q].amSetServices = SFNodeNetwork + SFNodeCF
       /\ Refused(r) /\ ~peer[r].inbound
       /\ peer[r].reject = MissingNetworkReason
       /\ peer[r].amSetServices = 0


(***************************************************************************)
(* Requests of a connected peer that the server answers from its own       *)
(* state: getaddr, getminingstate and the committed-filter requests.        *)
(***************************************************************************)
\* activeNetParams.StakeValidationHeight
StakeValidationHeight == 3

\* wire.NodeCFVersion: the protocol version that knows the CF service bit.
NodeCFVersion == 5

\* defaultServices
defaultServices == SFNodeNetwork + SFNodeCF

\* newServer: the services the server advertises.
serverServices ==
    IF cfgNoCFilters THEN BitAndNot(defaultServices, SFNodeCF) ELSE defaultServices

\* What the request callbacks leave alone.
requestFrame ==
    <<registryVars, newPeers, donePeers, lifeVars, now, collabVars, cfgVars, invQueue,
      rbCaller, fanoutVars, rebroadcastVars, taskVars, facadeCalls, getDataVars,
      cfgBlocksOnly, inbox, msgChan, txProcessed, blockProcessed, knownInventory>>

\* The callback that ran last for a peer, and the message it queued if any.
Requested(handler, sp, reply) ==
    [NoEffects EXCEPT !.handler = handler, !.seq = 1 - effects.seq, !.sp = sp,
                      !.reply = reply]

\* The input handler of the peer is between two messages.
Reading(sp) == VersionKnown(sp) /\ peer[sp].connected /\ cbPc[sp] = "read"

getAddrRepliesAlways(sp) == ~CfgSimNet /\ peer[sp].inbound

\* OnGetAddr: the request is answered.
getAddrReplies(sp) == ~CfgSimNet /\ peer[sp].inbound /\ ~peer[sp].addrsSent

\* OnGetAddr with pushAddrMsg: count addresses of the cache are unknown to the
\* peer; err is the outcome of PushAddrMsg.
OnGetAddr(sp, count, err) ==
    /\ Reading(sp)
    /\ IF getAddrReplies(sp)
       THEN /\ peer' = IF err THEN Disconnect([peer EXCEPT ![sp].addrsSent = TRUE], sp)
                       ELSE [peer EXCEPT ![sp].addrsSent = TRUE]
            /\ queued' = [queued EXCEPT ![sp] = Append(@, [kind |-> "addr", count |-> count])]
            /\ effects' = Requested("getaddr", sp, "addr")
       ELSE /\ UNCHANGED <<peer, queued>>
            /\ effects' = Requested("getaddr", sp, "")
    /\ UNCHANGED <<requestFrame, banScore, banPeers, cbPc>>

\* pushMiningStateMsg: the queue of the peer after the call; err is the
\* outcome of AddBlockHash and AddVoteHash.
pushMiningStateMsg(queue, height, numBlocks, err) ==
    IF numBlocks = 0 THEN queue
    ELSE IF err THEN queue
    ELSE Append(queue, [kind |-> "miningstate", count |-> numBlocks])

\* The chain is below the height at which mining states are sent.
earlyChain == chain.height < StakeValidationHeight - 1

\* OnGetMiningState: the request is not ignored.
miningStateReplies(sp) == ~peer[sp].getMiningStateSent

\* OnGetMiningState: tipErr is the outcome of TipGeneration, numBlocks the
\* number of eligible blocks, votes whether every block has vote metadata and
\* pushErr the outcome of building the message.
OnGetMiningState(sp, tipErr, numBlocks, votes, pushErr) ==
    /\ Reading(sp)
    /\ IF ~miningStateReplies(sp)
       THEN /\ UNCHANGED <<peer, queued>>
            /\ effects' = Requested("getminingstate", sp, "")
       ELSE LET after ==
                   IF earlyChain THEN pushMiningStateMsg(queued[sp], 0, 0, FALSE)
                   ELSE IF tipErr \/ numBlocks = 0 \/ ~votes THEN queued[sp]
                   ELSE pushMiningStateMsg(queued[sp], chain.height, numBlocks, pushErr)
            IN /\ peer' = [peer EXCEPT ![sp].getMiningStateSent = TRUE]
               /\ queued' = [queued EXCEPT ![sp] = after]
               /\ effects' = Requested("getminingstate", sp,
                                       IF after = queued[sp] THEN "" ELSE "miningstate")
    /\ UNCHANGED <<requestFrame, banScore, banPeers, cbPc>>

\* The committed-filter requests.
CFCommands == {"getcfilter", "getcfheaders", "getcftypes"}

\* enforceNodeCFFlag: the server advertises the committed-filter service.
enforceNodeCFFlag(sp) == hasServices(serverServices, SFNodeCF)

cfViolationAnyVersion(sp) == ~cfgDisableBanning

\* enforceNodeCFFlag: the peer knowingly violates the protocol.
cfViolation(sp) == peer[sp].protoVer >= NodeCFVersion /\ ~cfgDisableBanning

\* OnGetCFilter, OnGetCFHeaders and OnGetCFTypes up to the disconnect of
\* enforceNodeCFFlag; ok tells that the chain is current and every lookup of
\* the reply succeeds.
OnGetCF(sp, cmd, ok) ==
    /\ Reading(sp)
    /\ IF ~enforceNodeCFFlag(sp)
       THEN /\ IF cfViolation(sp)
               THEN addBanScore(sp, 100, 0)
               ELSE UNCHANGED <<banScore, peer, banPeers>>
            /\ cbPc' = [cbPc EXCEPT ![sp] = "enforceNodeCFFlag"]
            /\ effects' = Requested(cmd, sp, "")
            /\ UNCHANGED queued
       ELSE LET replies == ~cfgNoCFilters /\ (cmd = "getcftypes" \/ ok)
                reply == IF cmd = "getcfilter" THEN "cfilter"
                         ELSE IF cmd = "getcfheaders" THEN "cfheaders" ELSE "cftypes"
            IN /\ queued' = IF replies
                            THEN [queued EXCEPT ![sp] = Append(@, [kind |-> reply, count |-> 1])]
                            ELSE queued
               /\ effects' = Requested(cmd, sp, IF replies THEN reply ELSE "")
               /\ UNCHANGED <<banScore, peer, banPeers, cbPc>>
    /\ UNCHANGED requestFrame

\* enforceNodeCFFlag: sp.Disconnect(), after which the callback returns.
CFDisconnect(sp) ==
    /\ cbPc[sp] = "enforceNodeCFFlag"
    /\ peer' = Disconnect(peer, sp)
    /\ cbPc' = [cbPc EXCEPT ![sp] = "read"]
    /\ UNCHANGED <<requestFrame, banScore, banPeers, queued, effects>>


\* Most replies queued for one peer.
MaxQueued == 2

\* A peer the server accepted, in either direction, that negotiated version.
AcceptedPeer(inbound, host, version) ==
    [newServerPeer(inbound, FALSE, host) EXCEPT
        !.phase = "versioned",
        !.protoVer = version,
        !.services = defaultServices,
        !.amSetServices = IF setsServices(inbound) THEN defaultServices ELSE -1,
        !.amGood = setsServices(inbound),
        !.peerNa = IF inbound THEN "" ELSE CHOOSE h \in AddrYous : TRUE]

\* The server is running and every peer is registered in the map of its
\* direction (peers with an odd id are inbound); the peers negotiated the
\* given versions and have the given decaying ban scores.
Requesting(version, transient) ==
    /\ cfgDisableRPC = FALSE
    /\ cfgMaxPeers = CfgMaxPeers
    /\ LET inbound == [p \in PeerIds |-> p % 2 = 1] IN
          LET hostOf == CHOOSE h \in HostAssignments : TRUE
              reports == IF cfgSimNet THEN 0
                         ELSE Cardinality({p \in PeerIds : ~inbound[p]})
          IN /\ peer = [p \in PeerIds |-> AcceptedPeer(inbound[p], hostOf[p], version[p])]
             /\ inboundPeers = {p \in PeerIds : inbound[p]}
             /\ outboundPeers = {p \in PeerIds : ~inbound[p]}
             /\ outboundGroups =
                   [g \in Groups |->
                       Cardinality({p \in PeerIds : ~inbound[p] /\ GroupKey(hostOf[p]) = g})]
             /\ suggestions = [h \in SuggestedHosts |-> IF h \in AddrYous THEN reports ELSE 0]
             /\ localAddresses = IF reports >= 2 THEN AddrYous ELSE {}
    /\ persistentPeers = {}
    /\ banned = <<>>
    /\ newPeers = <<>>
    /\ donePeers = <<>>
    /\ banPeers = <<>>
    /\ started = 1
    /\ shutdown = 0
    /\ quit = FALSE
    /\ loopPc = "run"
    /\ now = 0
    /\ bmPeers = PeerIds
    /\ banScore = [p \in PeerIds |-> [persistent |-> 0, transient |-> transient[p]]]
    /\ GetDataIdle
    /\ RelayIdle
    /\ queued = [p \in PeerIds |-> <<>>]
    /\ invQueue = <<>>
    /\ rbCaller = "idle"
    /\ FanoutIdle
    /\ pendingInvs = <<>>
    /\ modifyRebroadcastInv = <<>>
    /\ rbPc = "select"
    /\ fireDone = {}
    /\ rebroadcasts = <<>>
    /\ fires = 0
    /\ timerInterval = InitialDelay
    /\ riv = NoMsg
    /\ TasksIdle
    /\ ObserverIdle

\* Peers that know the CF service bit request addresses and mining states;
\* the chain is one block below or at the height from which mining states are
\* sent.
RequestInit ==
    /\ cfgSimNet \in BOOLEAN
    /\ cfgNoCFilters = FALSE
    /\ cfgDisableBanning = FALSE
    /\ chain \in {[GenesisChain EXCEPT !.height = h] :
                    h \in {StakeValidationHeight - 2, StakeValidationHeight - 1}}
    /\ Requesting([p \in PeerIds |-> NodeCFVersion], [p \in PeerIds |-> 0])

RequestNext ==
    \/ \E sp \in PeerIds, count \in {0, 2}, err \in BOOLEAN : OnGetAddr(sp, count, err)
    \/ \E sp \in PeerIds, tipErr \in BOOLEAN, numBlocks \in {0, 1}, votes \in BOOLEAN,
          pushErr \in BOOLEAN : OnGetMiningState(sp, tipErr, numBlocks, votes, pushErr)

RequestSpec == RequestInit /\ [][RequestNext]_vars

\* The messages of a kind queued for the peer.
QueuedOf(sp, kind) == {k \in DOMAIN queued[sp] : queued[sp][k].kind = kind}

\* C32: once a getminingstate request of a peer has been handled while the
\* best chain height is below the stake validation height minus one, a
\* mining-state message is queued for the peer.
EarlyMiningStateQueued ==
    \A sp \in PeerIds :
       (peer[sp].getMiningStateSent /\ earlyChain) => QueuedOf(sp, "miningstate") # {}

\* The first getminingstate request on an early chain only sets the flag.
EarlyMiningStateSilent ==
    [][\A sp \in PeerIds :
          (earlyChain /\ ~peer[sp].getMiningStateSent /\ peer'[sp].getMiningStateSent) =>
             queued'[sp] = queued[sp]]_vars

\* C33: a getaddr or getminingstate request queues a reply only by setting
\* the reply flag of its kind, which is never cleared, so at most one address
\* push and at most one mining-state message are made per connection; getaddr
\* from an outbound peer or on the simulation network queues nothing and
\* leaves addrsSent unset.
OncePerConnection ==
    /\ [](\A sp \in PeerIds :
            /\ Cardinality(QueuedOf(sp, "addr")) <= 1
            /\ Cardinality(QueuedOf(sp, "miningstate")) <= 1
            /\ QueuedOf(sp, "addr") # {} => peer[sp].addrsSent
            /\ QueuedOf(sp, "miningstate") # {} => peer[sp].getMiningStateSent
            /\ (~peer[sp].inbound \/ cfgSimNet) =>
                  (QueuedOf(sp, "addr") = {} /\ ~peer[sp].addrsSent))
    /\ [][\A sp \in PeerIds :
            /\ QueuedOf(sp, "addr")' # QueuedOf(sp, "addr") =>
                  (~peer[sp].addrsSent /\ peer'[sp].addrsSent)
            /\ QueuedOf(sp, "miningstate")' # QueuedOf(sp, "miningstate") =>
                  (~peer[sp].getMiningStateSent /\ peer'[sp].getMiningStateSent)
            /\ peer[sp].addrsSent => peer'[sp].addrsSent
            /\ peer[sp].getMiningStateSent => peer'[sp].getMiningStateSent]_vars

\* A further getaddr of an inbound peer that was served got no reply, a
\* mining state was sent to it, and a getaddr of an outbound peer was ignored
\* in the other connection.
OncePerConnectionWitness ==
    \E sp, q \in PeerIds :
       /\ peer[sp].inbound /\ ~cfgSimNet
       /\ effects.handler = "getaddr" /\ effects.sp = sp /\ effects.reply = ""
       /\ Cardinality(QueuedOf(sp, "addr")) = 1
       /\ Cardinality(QueuedOf(sp, "miningstate")) = 1
       /\ ~peer[q].inbound /\ ~peer[q].addrsSent


(***************************************************************************)
(* serverPeer.OnInv beside OnTx and OnBlock.                                *)
(***************************************************************************)
\* The inv messages a peer sends, by the types of their inventory vectors in
\* order (b: block, t: tx); "inv" carries no vector.
InvNames == {"inv", "inv:bb", "inv:bt", "inv:tb"}

\* msg.InvList of a received inv message.
InvListOf(m) ==
    CASE m = "inv" -> <<>>
      [] m = "inv:bb" -> <<"block", "block">>
      [] m = "inv:bt" -> <<"block", "tx">>
      [] m = "inv:tb" -> <<"tx", "block">>

InvInboxes == UNION {[1..n -> {"tx", "block"} \cup InvNames] : n \in 0..MaxInbox}

announcesNothing(invVectType) == FALSE
\* invVect.Type == wire.InvTypeTx
announcesTx(invVectType) == invVectType = "tx"

\* OnInv.  In blocks-only mode the loop returns at the first tx vector, after
\* disconnecting the peer, and otherwise copies every vector to newInv (an
\* inv message read from the wire never exceeds the vectors newInv takes).
OnInv(sp) ==
    /\ cbPc[sp] = "read"
    /\ peer[sp].connected
    /\ inbox[sp] # <<>>
    /\ Head(inbox[sp]) \in InvNames
    /\ inbox' = [inbox EXCEPT ![sp] = Tail(@)]
    /\ LET InvList == InvListOf(Head(inbox[sp]))
           QueueInv(list) == Append(invQueue, [peer |-> sp, list |-> list])
       IN IF ~cfgBlocksOnly
          THEN /\ invQueue' = IF Len(InvList) > 0 THEN QueueInv(InvList) ELSE invQueue
               /\ UNCHANGED peer
          ELSE IF \E i \in DOMAIN InvList : announcesTx(InvList[i])
               THEN /\ peer' = Disconnect(peer, sp)
                    /\ UNCHANGED invQueue
               ELSE /\ invQueue' = IF Len(InvList) > 0 THEN QueueInv(InvList) ELSE invQueue
                    /\ UNCHANGED peer
    /\ UNCHANGED <<registryVars, chanVars, lifeVars, now, collabVars>>
    /\ UNCHANGED <<cfgVars, queued, rbCaller, serviceVars, banScore, getDataVars>>
    /\ UNCHANGED <<cfgBlocksOnly, cbPc, msgChan, txProcessed, blockProcessed, knownInventory>>

InvInit ==
    /\ Serving(CHOOSE hostOf \in HostAssignments : TRUE)
    /\ BanIdle
    /\ GetDataIdle
    /\ cfgBlocksOnly \in BOOLEAN
    /\ inbox \in [PeerIds -> InvInboxes]
    /\ cbPc = [p \in PeerIds |-> "read"]
    /\ msgChan = <<>>
    /\ txProcessed = [p \in PeerIds |-> 0]
    /\ blockProcessed = [p \in PeerIds |-> 0]
    /\ knownInventory = [p \in PeerIds |-> {}]
    /\ ServiceIdle

\* The input handler of a disconnected peer reads no further message.
InvNext ==
    \/ \E sp \in PeerIds : peer[sp].connected /\ OnTx(sp)
    \/ \E sp \in PeerIds : OnTxReturn(sp)
    \/ \E sp \in PeerIds : peer[sp].connected /\ OnBlock(sp)
    \/ \E sp \in PeerIds : OnBlockReturn(sp)
    \/ \E sp \in PeerIds : OnInv(sp)
    \/ BlockManagerProcess

InvSpec == InvInit /\ [][InvNext]_vars

\* The peer's input handler takes a message of the named kinds off the wire.
Reads(sp, kinds) ==
    /\ inbox[sp] # <<>>
    /\ Head(inbox[sp]) \in kinds
    /\ inbox'[sp] = Tail(inbox[sp])

HasTx(list) == \E i \in DOMAIN list : list[i] = "tx"

\* C34: in blocks-only mode the block manager holds no transaction and no
\* inventory list with a tx vector that a peer sent, and no peer waits on
\* txProcessed; OnTx then returns at once without queueing, and an inv message
\* with a tx vector disconnects the peer and forwards nothing.  Outside
\* blocks-only mode a non-empty inv message is forwarded whole.
BlocksOnlyShield ==
    /\ [](cfgBlocksOnly =>
            /\ \A k \in DOMAIN msgChan : msgChan[k].kind # "tx"
            /\ \A k \in DOMAIN invQueue : ~HasTx(invQueue[k].list)
            /\ \A sp \in PeerIds : cbPc[sp] # "OnTx")
    /\ [][\A sp \in PeerIds :
            /\ (cfgBlocksOnly /\ Reads(sp, {"tx"})) =>
                   msgChan' = msgChan /\ cbPc'[sp] = "read" /\ txProcessed' = txProcessed
            /\ (cfgBlocksOnly /\ Reads(sp, InvNames) /\ HasTx(InvListOf(Head(inbox[sp])))) =>
                   ~peer'[sp].connected /\ invQueue' = invQueue
            /\ (~cfgBlocksOnly /\ Reads(sp, InvNames \ {"inv"})) =>
                   invQueue' = Append(invQueue,
                                      [peer |-> sp, list |-> InvListOf(Head(inbox[sp]))])
         ]_vars

\* In blocks-only mode a peer was disconnected for announcing a transaction
\* after a block-only inv message of another peer was forwarded, and a tx
\* message was read and dropped.
BlocksOnlyShieldWitness ==
    /\ cfgBlocksOnly
    /\ \E sp \in PeerIds : ~peer[sp].connected /\ Len(inbox[sp]) = MaxInbox - 1
    /\ invQueue # <<>>
    /\ \E sp \in PeerIds : peer[sp].connected /\ inbox[sp] = <<>> /\ cbPc[sp] = "read"


(***************************************************************************)
(* serverPeer.OnGetBlocks, and OnGetData serving the blocks it announced.   *)
(***************************************************************************)
\* wire.MaxBlocksPerMsg, scaled to the length of BestChain.
MaxBlocksPerMsg == 2
\* Most getblocks messages of one peer.
MaxGetBlocks == 3
\* Longest getdata message that follows them.
MaxBlockRequest == 2

\* chain.LocateBlocks: a run of consecutive hashes of the best chain that ends
\* at the stop hash, at the tip or after wire.MaxBlocksPerMsg hashes; empty
\* when the locator names the tip.
HashLists ==
    {SubSeq(BestChain, a, b) : a \in 1..(Len(BestChain) + 1), b \in 0..Len(BestChain)}
BlockRequests ==
    UNION {[1..n -> BlockHashes \cup {"blockMissing"}] : n \in 1..MaxBlockRequest}

cappedAlways(invListLen) == TRUE
\* invListLen == wire.MaxBlocksPerMsg
capped(invListLen) == invListLen = MaxBlocksPerMsg

\* OnGetBlocks for the hashes LocateBlocks returned.  The callbacks of a peer
\* run one after the other, so no getdata message is being served.
OnGetBlocks(hashList) ==
    /\ gdPc \in {"idle", "returned"}
    /\ VersionKnown(servedPeer)
    /\ peer[servedPeer].connected
    /\ Len(hashList) <= MaxBlocksPerMsg
    /\ Len(queued[servedPeer]) < MaxGetBlocks
    /\ IF Len(hashList) > 0
       THEN /\ continueHash' = IF capped(Len(hashList))
                               THEN hashList[Len(hashList)]
                               ELSE continueHash
            /\ queued' = [queued EXCEPT
                            ![servedPeer] = Append(@, [kind |-> "inv", list |-> hashList])]
       ELSE UNCHANGED <<continueHash, queued>>
    /\ UNCHANGED <<invList, invLength, gdPc, gdI, numAdded, notFound, waitChan, chans,
                   sendQueue, sent>>
    /\ UNCHANGED <<loopVars, cfgVars, invQueue, rbCaller, serviceVars, banScore, relayVars>>

BlocksInit ==
    /\ Serving(CHOOSE hostOf \in HostAssignments : TRUE)
    /\ BanIdle
    /\ GetDataIdle
    /\ RelayIdle
    /\ ServiceIdle

BlocksNext ==
    \/ \E hashList \in HashLists : OnGetBlocks(hashList)
    \/ \E msg \in BlockRequests : OnGetDataStart(msg)
    \/ GetDataItem
    \/ GetDataNotFound
    \/ GetDataWait
    \/ CodecSend

BlocksSpec == BlocksInit /\ [][BlocksNext]_vars

\* The getblocks responses queued for the served peer, oldest first.
Responses == queued[servedPeer]
LastHash(response) == response.list[Len(response.list)]
IsCapped(response) == Len(response.list) = MaxBlocksPerMsg

\* OnGetData serves the block continueHash names.
ServesContinue ==
    /\ gdPc = "loop"
    /\ gdI' = gdI + 1
    /\ continueHash # NoHash
    /\ invList[gdI + 1] = continueHash

\* C35 as stated: whenever continueHash is set, it is the last hash of the
\* most recent getblocks response to the peer, and that response was capped.
ContinueHashOfLastResponse ==
    continueHash # NoHash =>
        /\ Responses # <<>>
        /\ IsCapped(Responses[Len(Responses)])
        /\ continueHash = LastHash(Responses[Len(Responses)])

\* C35: whenever continueHash is set, it is the last hash of the most recent
\* capped getblocks response to the peer, shorter responses sent after it
\* leaving it as it is; serving that block by getdata queues the block with no
\* completion channel and one inventory message right after it, and clears
\* continueHash, and no other step queues an inventory message to the codec.
ContinueHashOfLastCapped ==
    /\ [](continueHash # NoHash =>
            LET cappedAt == {k \in DOMAIN Responses : IsCapped(Responses[k])}
            IN /\ cappedAt # {}
               /\ \E k \in cappedAt :
                     /\ \A j \in cappedAt : j <= k
                     /\ continueHash = LastHash(Responses[k]))
    /\ [][/\ ServesContinue =>
               /\ Len(sendQueue') = Len(sendQueue) + 2
               /\ SubSeq(sendQueue', 1, Len(sendQueue)) = sendQueue
               /\ sendQueue'[Len(sendQueue) + 1] =
                      [kind |-> "block", item |-> gdI + 1, done |-> NilChan]
               /\ sendQueue'[Len(sendQueue) + 2].kind = "inv"
               /\ continueHash' = NoHash
          /\ (Len(sendQueue') > Len(sendQueue) /\ ~ServesContinue) =>
               /\ Len(sendQueue') = Len(sendQueue) + 1
               /\ sendQueue'[Len(sendQueue')].kind # "inv"
               /\ gdPc = "loop" => continueHash' = continueHash
         ]_vars

\* A capped response was followed by a shorter one, continueHash kept the last
\* hash of the capped one, and the block it names was then served and followed
\* by one inventory message.
ContinueHashOfLastCappedWitness ==
    /\ Len(Responses) = 2
    /\ IsCapped(Responses[1])
    /\ ~IsCapped(Responses[2])
    /\ continueHash = NoHash
    /\ gdPc = "returned"
    /\ Len(sent) = 3
    /\ sent[1].kind = "block" /\ sent[2].kind = "block" /\ sent[3].kind = "inv"
    /\ invList[2] = LastHash(Responses[1])


(***************************************************************************)
(* The committed-filter requests of peers of both kinds of version, with    *)
(* and without the local committed-filter service and banning.              *)
(***************************************************************************)
FilterInit ==
    /\ cfgSimNet = FALSE
    /\ cfgNoCFilters \in BOOLEAN
    /\ cfgDisableBanning \in BOOLEAN
    /\ chain = GenesisChain
    /\ \E version \in [PeerIds -> {NodeCFVersion - 1, NodeCFVersion}],
          transient \in [PeerIds -> {0, 33}] : Requesting(version, transient)

FilterNext ==
    \/ \E sp \in PeerIds, cmd \in CFCommands, ok \in BOOLEAN :
          Len(queued[sp]) < MaxQueued /\ OnGetCF(sp, cmd, ok)
    \/ \E sp \in PeerIds : CFDisconnect(sp)

FilterSpec == FilterInit /\ [][FilterNext]_vars

\* The local node advertises the committed-filter service.
AdvertisesCF == BitAnd(serverServices, SFNodeCF) # 0

\* The input handler of the peer runs a committed-filter callback.
CFStep(sp) ==
    /\ cbPc[sp] = "read"
    /\ effects'.seq # effects.seq
    /\ effects'.sp = sp
    /\ effects'.handler \in CFCommands

\* C36: when the local node does not advertise the committed-filter service,
\* every getcfilter, getcfheaders and getcftypes request takes the peer to the
\* disconnect of enforceNodeCFFlag, from which the callback returns only with
\* the peer disconnected, and no reply is ever queued; the request raises the
\* persistent ban score by 100 if the peer negotiated at least the version
\* that knows the service bit, banning is enabled and the peer is not
\* whitelisted, and leaves both parts of the score alone otherwise.
NoFilterServiceDisconnects ==
    /\ [](~AdvertisesCF => \A sp \in PeerIds : queued[sp] = <<>>)
    /\ [][~AdvertisesCF =>
            \A sp \in PeerIds :
               /\ CFStep(sp) =>
                     /\ cbPc'[sp] = "enforceNodeCFFlag"
                     /\ queued' = queued
                     /\ banScore'[sp] =
                           IF /\ peer[sp].protoVer >= NodeCFVersion
                              /\ ~cfgDisableBanning
                              /\ ~peer[sp].isWhitelisted
                           THEN [banScore[sp] EXCEPT !.persistent = @ + 100]
                           ELSE banScore[sp]
               /\ (cbPc[sp] = "enforceNodeCFFlag" /\ cbPc'[sp] # cbPc[sp]) =>
                     /\ cbPc'[sp] = "read"
                     /\ ~peer'[sp].connected
                     /\ banScore' = banScore
                     /\ queued' = queued
         ]_vars

\* Without the service and with banning enabled, a peer that knows the service
\* bit was disconnected with a persistent score of 100 and a peer of an older
\* version was disconnected with its score unchanged.
NoFilterServiceDisconnectsWitness ==
    /\ ~AdvertisesCF
    /\ ~cfgDisableBanning
    /\ \E sp \in PeerIds :
          /\ peer[sp].protoVer >= NodeCFVersion
          /\ ~peer[sp].connected
          /\ banScore[sp].persistent = 100
          /\ cbPc[sp] = "read"
    /\ \E sp \in PeerIds :
          /\ peer[sp].protoVer < NodeCFVersion
          /\ ~peer[sp].connected
          /\ banScore[sp] = [persistent |-> 0, transient |-> 33]
          /\ cbPc[sp] = "read"


(***************************************************************************)
(* What OnGetData queues for one getdata message.                           *)
(***************************************************************************)
\* The messages OnGetData queued to the codec so far, oldest first, sent or
\* not.
QueuedToCodec ==
    sent \o [k \in 1..Len(sendQueue) |->
                [kind |-> sendQueue[k].kind, item |-> sendQueue[k].item]]

\* The entries of the request, by position, that are transactions and blocks
\* whose fetch succeeds, and those whose fetch fails.
FoundEntries == {i \in DOMAIN invList : invList[i] \in {"tx"} \cup BlockHashes}
MissingEntries == {i \in DOMAIN invList : invList[i] \in {"txMissing", "blockMissing"}}

\* C37: once OnGetData has left its loop and queued what follows it, the
\* payload messages queued for the getdata message are those of the entries
\* that were found, each once, in request order and of the entry's type; the
\* notfound list holds the entries whose fetch failed, each once, in request
\* order; one notfound message is queued, after every other message, when an
\* entry is missing and none otherwise; entries of unknown type are in
\* neither.  Before that point no notfound message is queued.
FoundInOrderThenNotFound ==
    LET all == QueuedToCodec
        payloadAt == {k \in DOMAIN all : all[k].kind \in {"tx", "block"}}
        notFoundAt == {k \in DOMAIN all : all[k].kind = "notfound"}
    IN /\ gdPc \in {"idle", "loop", "after"} => notFoundAt = {}
       /\ \A j, k \in payloadAt : j < k => all[j].item < all[k].item
       /\ \A k \in payloadAt :
             /\ all[k].item \in FoundEntries
             /\ all[k].kind = IF invList[all[k].item] = "tx" THEN "tx" ELSE "block"
       /\ \A j, k \in DOMAIN notFound : j < k => notFound[j] < notFound[k]
       /\ \A k \in DOMAIN notFound : notFound[k] \in MissingEntries
       /\ gdPc \in {"wait", "returned"} /\ invList # <<>> =>
             /\ {all[k].item : k \in payloadAt} = FoundEntries
             /\ {notFound[k] : k \in DOMAIN notFound} = MissingEntries
             /\ notFoundAt = IF MissingEntries = {} THEN {} ELSE {Len(all)}

\* OnGetData returned from a request of a missing transaction, a block, an
\* entry of unknown type and a missing block: the block and then the notfound
\* message were sent, the notfound list naming the first and the last entry.
FoundInOrderThenNotFoundWitness ==
    /\ gdPc = "returned"
    /\ invList = <<"txMissing", "block", "unknown", "blockMissing">>
    /\ notFound = <<1, 4>>
    /\ sent = <<[kind |-> "block", item |-> 2], [kind |-> "notfound", item |-> 0]>>


(***************************************************************************)
(* The add and the done message of one peer, taken in either order.         *)
(***************************************************************************)
\* The event loop is running and has handled the done message of the peer:
\* peerDoneHandler posted it and it is no longer in the channel.
DoneHandled(q) ==
    /\ loopPc = "run"
    /\ peer[q].doneSent
    /\ q \notin Range(donePeers)

\* C38: once the event loop has handled the done message of a disconnected
\* peer, the peer is in no registry map, whichever of its add and done
\* messages the loop took first.
GoneAfterDone == \A q \in PeerIds : DoneHandled(q) => q \notin AllPeers


(***************************************************************************)
(* The facade methods: a caller sends a query on the unbuffered query       *)
(* channel and then receives from the reply channel it made.                *)
(***************************************************************************)
\* The queries of the facade methods; a connect query is permanent or not.
QueryKinds == {"getConnCount", "getPeers", "getOutboundGroup", "getAddedNodes",
               "disconnectNode", "removeNode", "connectNode", "connectNodePermanent"}
\* The peer or address a query names, if it names one.
QueryTargets(kind) ==
    IF kind \in {"disconnectNode", "removeNode"}
    THEN {t \in Targets : t.by = "id" => t.id = 1}
    ELSE IF kind \in {"connectNode", "connectNodePermanent"}
    THEN {t \in Targets : t.by = "addr"}
    ELSE {NoTarget}
\* The caller whose calls are followed.
FacadeCallers == {1}

\* A facade method is entered: the caller is at s.query <- msg.
FacadeCall(c, kind, target) ==
    /\ facadeCalls[c].pc = "idle"
    /\ facadeCalls' = [facadeCalls EXCEPT
                         ![c] = [pc |-> "send", kind |-> kind, target |-> target,
                                 replies |-> <<>>]]
    /\ UNCHANGED <<loopVars, unobserved, effects>>

\* handleQuery: the values sent on msg.reply, in order, for the queries that
\* only read the registry.
readReplies(kind) ==
    IF kind = "getConnCount" THEN <<"nconnected">>
    ELSE IF kind = "getPeers" THEN <<"peers">>
    ELSE IF kind = "getOutboundGroup" THEN <<"count">>
    ELSE <<"added nodes">>

\* handleQuery, case removeNodeMsg: msg.reply
removeNodeReply(target) ==
    IF persistentMatches(target) # {} THEN "nil" ELSE "peer not found"

\* case qmsg := <-s.query: handleQuery runs and the caller, which went on to
\* receive from its reply channel, takes what is sent there.
HandleQuery(c) ==
    /\ facadeCalls[c].pc = "send"
    /\ loopPc = "run"
    /\ LET q == facadeCalls[c]
           Returned(replies) ==
               facadeCalls' = [facadeCalls EXCEPT
                                 ![c].pc = "returned", ![c].replies = @ \o replies]
       IN \/ /\ q.kind = "disconnectNode"
             /\ ReceiveDisconnectNode(q.target)
             /\ Returned(<<disconnectNodeReply(q.target)>>)
          \/ /\ q.kind = "removeNode"
             /\ ReceiveRemoveNode(q.target)
             /\ Returned(<<removeNodeReply(q.target)>>)
          \/ /\ q.kind \in {"connectNode", "connectNodePermanent"}
             /\ ReceiveConnectNode(q.target.addr, q.kind = "connectNodePermanent")
             /\ Returned(<<connectNodeReply(q.target.addr, q.kind = "connectNodePermanent")>>)
          \/ /\ q.kind \in {"getConnCount", "getPeers", "getOutboundGroup", "getAddedNodes"}
             /\ Returned(readReplies(q.kind))
             /\ UNCHANGED <<loopVars, unobserved>>
    /\ UNCHANGED effects

\* cleanup: case <-s.query: the query is received and dropped, and its caller
\* is left at the receive from its reply channel.
CleanupDrainQuery(c) ==
    /\ loopPc = "cleanup"
    /\ facadeCalls[c].pc = "send"
    /\ facadeCalls' = [facadeCalls EXCEPT ![c].pc = "wait"]
    /\ UNCHANGED <<loopVars, unobserved, effects>>

\* cleanup: the default case is taken when no case is ready, a caller blocked
\* in its send on the query channel being one.
FacadeCleanupExit ==
    /\ \A c \in Callers : facadeCalls[c].pc # "send"
    /\ CleanupExit

\* The address each peer connects from.
FacadeHost(sp) == IF sp = 1 THEN "10.0.0.1" ELSE "10.1.0.1"

FacadeNext ==
    \/ shutdown = 0 /\ Stop
    \/ \E sp \in PeerIds, inbound \in BOOLEAN, isPersistent \in BOOLEAN :
          PeerConnected(sp, inbound, isPersistent, FacadeHost(sp))
    \/ \E sp \in PeerIds : OnVersion(sp, FullNodeMsg)
    \/ \E sp \in PeerIds : RemoteDisconnect(sp)
    \/ \E sp \in PeerIds : peerDoneHandler(sp)
    \/ HandleAddPeer
    \/ HandleDonePeer
    \/ \E c \in FacadeCallers, kind \in QueryKinds :
          \E target \in QueryTargets(kind) : FacadeCall(c, kind, target)
    \/ \E c \in FacadeCallers : HandleQuery(c)
    \/ HandleQuit
    \/ CleanupDrain
    \/ \E c \in FacadeCallers : CleanupDrainQuery(c)
    \/ FacadeCleanupExit

FacadeSpec == DiscoveryInit /\ [][FacadeNext]_vars

\* The event loop received the query of the caller and is done with it.
QueryReceived(c) == facadeCalls[c].pc \in {"wait", "returned"}

\* C39 as stated: for every query the event loop received, exactly one value
\* was sent on the reply channel, so that its caller returns.
ReceivedQueryRepliedOnce ==
    \A c \in Callers : QueryReceived(c) => Len(facadeCalls[c].replies) = 1

\* Every query that handleQuery handled got exactly one reply, and its caller
\* returned.
HandledQueryRepliedOnce ==
    \A c \in Callers :
        /\ facadeCalls[c].pc = "returned" => Len(facadeCalls[c].replies) = 1
        /\ facadeCalls[c].replies # <<>> => facadeCalls[c].pc = "returned"


(***************************************************************************)
(* AddRebroadcastInventory, RemoveRebroadcastInventory and                  *)
(* PruneRebroadcastInventory, step by step, with the server started with    *)
(* and without its RPC server.                                              *)
(***************************************************************************)
\* The function is entered: it returns at once when shutdown is set.
RebroadcastCall ==
    /\ rbCaller \in {"idle", "returned"}
    /\ rbCaller' = IF shutdown # 0 THEN "returned" ELSE "checked"
    /\ UNCHANGED <<queued, invQueue>>
    /\ UNCHANGED <<loopVars, cfgVars, serviceVars, banScore, getDataVars, relayVars>>

\* s.modifyRebroadcastInv <- msg: the caller offers the message on the
\* unbuffered channel.
RebroadcastSend(msg) ==
    /\ rbCaller = "checked"
    /\ modifyRebroadcastInv = <<>>
    /\ modifyRebroadcastInv' = <<msg>>
    /\ rbCaller' = "sending"
    /\ UNCHANGED <<pendingInvs, rbPc, fireDone, rebroadcasts, fires, timerInterval,
                   riv, chain>>
    /\ UNCHANGED <<queued, invQueue>>
    /\ UNCHANGED <<loopVars, cfgVars, fanoutVars, taskVars, observerVars, banScore,
                   getDataVars, relayVars>>

\* The message was received: the send is over and the function returns.
RebroadcastReturn ==
    /\ rbCaller = "sending"
    /\ modifyRebroadcastInv = <<>>
    /\ rbCaller' = "returned"
    /\ UNCHANGED <<queued, invQueue>>
    /\ UNCHANGED <<loopVars, cfgVars, serviceVars, banScore, getDataVars, relayVars>>

CallInit ==
    /\ LoopIdle
    /\ BanIdle
    /\ GetDataIdle
    /\ RelayIdle
    /\ cfgSimNet = FALSE
    /\ cfgDisableRPC \in BOOLEAN
    /\ cfgNoCFilters = FALSE
    /\ queued = [p \in PeerIds |-> <<>>]
    /\ invQueue = <<>>
    /\ rbCaller = "idle"
    /\ FanoutIdle
    /\ RebroadcastIdle
    /\ TasksIdle
    /\ ObserverIdle

CallNext ==
    \/ Start
    \/ Stop
    \/ RebroadcastCall
    \/ \E msg \in ModifyMsgs({RegularTx}) : RebroadcastSend(msg)
    \/ RebroadcastReturn
    \/ HandleModify
    \/ RebroadcastQuit
    \/ RebroadcastDrain
    \/ RebroadcastExit
    \/ HandleQuit
    \/ CleanupExit

CallSpec == CallInit /\ [][CallNext]_vars

\* The caller is blocked in its send on modifyRebroadcastInv.
CallerBlocked == rbCaller = "sending" /\ modifyRebroadcastInv # <<>>

\* The rebroadcast loop will never receive again: it has exited, or the
\* server was started without it.
NoReceiver == rbPc = "done" \/ (started > 0 /\ rbPc = "idle")

\* C40: a call of AddRebroadcastInventory, RemoveRebroadcastInventory or
\* PruneRebroadcastInventory is never blocked in its send while no rebroadcast
\* loop is left to receive from the channel, with the RPC server enabled or
\* disabled and whenever Stop and the exit of the loop occur.
CallerNeverStranded == ~(CallerBlocked /\ NoReceiver)

\* The same for the loop that has exited; it fails with the RPC server enabled
\* when the caller passes the shutdown test before Stop and offers its message
\* after the rebroadcast loop has left its cleanup.
StrandedByExit == ~(CallerBlocked /\ rbPc = "done")

============================================================================
